---- MODULE Spec2Model ----
(***************************************************************************)
(* Structure reconstruction (scripts/adobe_extract.py) and verification    *)
(* (scripts/verify_extraction.py) of the PDF extraction pipeline.          *)
(*                                                                         *)
(* Python values are modelled as follows: a str is a TLA+ string, a list   *)
(* a sequence, a dict a function whose domain is the set of its keys (a    *)
(* record), None the empty tuple and an Optional[str] holding s the        *)
(* one-element tuple <<s>>.  A call that can raise yields a record with    *)
(* the field exc: "" when it returned (the value is in field value), the   *)
(* exception's name otherwise.  The file system is a function from paths   *)
(* to files, a file being its modification time and its parsed JSON.       *)
(***************************************************************************)
EXTENDS Integers, Sequences, FiniteSets, TLC

VARIABLES adobe_data, pdf_filename, restructured, ret, files, calls,
          pc, pdf_files, verify_results, results,
          job, result, all_blocks, next_token

\* the batch processor's call and the Textract client's
batch_vars == <<pdf_files, verify_results, results>>

textract_vars == <<job, result, all_blocks, next_token>>

\* the extractor's and the verifier's calls
document_vars == <<adobe_data, pdf_filename, restructured, calls>>

vars == <<adobe_data, pdf_filename, restructured, ret, files, calls,
          pc, batch_vars, textract_vars>>

(***************************************************************************)
(* Python builtins used by the code.                                       *)
(***************************************************************************)
None == <<>>

Some(s) == <<s>>

EmptyDict == [k \in {} |-> 0]

\* dict.get(k, default)
Get(d, k, default) == IF k \in DOMAIN d THEN d[k] ELSE default

\* str.startswith
StartsWith(s, prefix) ==
    /\ Len(prefix) <= Len(s)
    /\ SubSeq(s, 1, Len(prefix)) = prefix

\* str.endswith
EndsWith(s, suffix) ==
    /\ Len(suffix) <= Len(s)
    /\ SubSeq(s, Len(s) - Len(suffix) + 1, Len(s)) = suffix

\* sub in s
Contains(s, sub) ==
    \E i \in 1..(Len(s) - Len(sub) + 1) : SubSeq(s, i, i + Len(sub) - 1) = sub

RECURSIVE LStrip(_)
LStrip(s) ==
    IF Len(s) > 0 /\ SubSeq(s, 1, 1) = " " THEN LStrip(SubSeq(s, 2, Len(s))) ELSE s

RECURSIVE RStrip(_)
RStrip(s) ==
    IF Len(s) > 0 /\ SubSeq(s, Len(s), Len(s)) = " "
    THEN RStrip(SubSeq(s, 1, Len(s) - 1))
    ELSE s

\* str.strip (the whitespace of the modelled texts is the space)
Strip(s) == RStrip(LStrip(s))

\* abs
Abs(n) == IF n < 0 THEN -n ELSE n

\* range(n)
Range(n) == 0..(n - 1)

Ok(v) == [exc |-> "", value |-> v]

Raise(e) == [exc |-> e]

\* Path(pdf_filename).stem: the name without its last suffix
RECURSIVE LastDot(_, _)
LastDot(s, i) ==
    IF i < 1 THEN 0
    ELSE IF SubSeq(s, i, i) = "." THEN i
    ELSE LastDot(s, i - 1)

Stem(name) ==
    LET d == LastDot(name, Len(name))
    IN  IF d > 1 /\ d < Len(name) THEN SubSeq(name, 1, d - 1) ELSE name

(***************************************************************************)
(* AdobePDFExtractor._extract_image_caption                                *)
(***************************************************************************)
\* the horizontal test of line 207 with <= for <
below_and_aligned_inclusive(text_bounds, image_bounds) ==
    /\ text_bounds[2] < image_bounds[2]
    /\ Abs(text_bounds[1] - image_bounds[1]) <= 50

\* lines 206-207: the text is below the image and at a similar x position
below_and_aligned(text_bounds, image_bounds) ==
    /\ text_bounds[2] < image_bounds[2]
    /\ Abs(text_bounds[1] - image_bounds[1]) < 50

\* lines 201-212: the candidates, in the order of all_elements
RECURSIVE potential_captions(_, _, _)
potential_captions(image_bounds, all_elements, i) ==
    IF i > Len(all_elements) THEN <<>>
    ELSE LET element == all_elements[i]
             text_bounds == Get(element, "Bounds", <<>>)
             rest == potential_captions(image_bounds, all_elements, i + 1)
         IN  IF /\ StartsWith(Get(element, "Path", ""), "//Document/P")
                /\ "Text" \in DOMAIN element
                /\ Len(text_bounds) >= 4
                /\ below_and_aligned(text_bounds, image_bounds)
             THEN <<[text |-> Get(element, "Text", ""),
                     distance |-> image_bounds[2] - text_bounds[2],
                     bounds |-> text_bounds]>> \o rest
             ELSE rest

\* a minimum that keeps the last item of least distance
RECURSIVE MinByDistance_last(_, _, _)
MinByDistance_last(items, i, best) ==
    IF i > Len(items) THEN best
    ELSE MinByDistance_last(items, i + 1,
                            IF items[i].distance <= best.distance THEN items[i] ELSE best)

\* min(potential_captions, key=distance): the first item of least distance
RECURSIVE MinByDistance(_, _, _)
MinByDistance(items, i, best) ==
    IF i > Len(items) THEN best
    ELSE MinByDistance(items, i + 1,
                       IF items[i].distance < best.distance THEN items[i] ELSE best)

extract_image_caption(image_element, all_elements) ==
    LET image_bounds == Get(image_element, "Bounds", <<>>)
    IN  IF Len(image_bounds) = 0 \/ Len(image_bounds) < 4 THEN None
        ELSE LET cands == potential_captions(image_bounds, all_elements, 1)
             IN  IF Len(cands) > 0
                 THEN LET closest == MinByDistance(cands, 2, cands[1])
                      IN  IF closest.distance < 100 THEN Some(closest.text) ELSE None
                 ELSE None

(***************************************************************************)
(* AdobePDFExtractor._extract_table_data                                   *)
(***************************************************************************)
RowIndex(x) == Get(Get(x, "attributes", EmptyDict), "RowIndex", 0)

ColIndex(x) == Get(Get(x, "attributes", EmptyDict), "ColIndex", 0)

\* lines 251-254: the cells of the table, in the order of all_elements
RECURSIVE table_cells(_, _, _)
table_cells(table_path, all_elements, i) ==
    IF i > Len(all_elements) THEN <<>>
    ELSE LET element == all_elements[i]
             rest == table_cells(table_path, all_elements, i + 1)
         IN  IF /\ StartsWith(Get(element, "Path", ""), table_path)
                /\ Contains(Get(element, "Path", ""), "TD")
             THEN <<element>> \o rest
             ELSE rest

\* the sort key with its two parts swapped: column first
KeyLess_column_first(a, b) ==
    \/ ColIndex(a) < ColIndex(b)
    \/ ColIndex(a) = ColIndex(b) /\ RowIndex(a) < RowIndex(b)

\* the sort key of lines 259-262, compared as Python compares tuples
KeyLess(a, b) ==
    \/ RowIndex(a) < RowIndex(b)
    \/ RowIndex(a) = RowIndex(b) /\ ColIndex(a) < ColIndex(b)

\* list.sort is stable: an item goes after every item whose key is not greater
RECURSIVE InsertSorted(_, _)
InsertSorted(sorted, x) ==
    IF Len(sorted) = 0 THEN <<x>>
    ELSE IF KeyLess(x, sorted[Len(sorted)])
         THEN InsertSorted(SubSeq(sorted, 1, Len(sorted) - 1), x)
                  \o <<sorted[Len(sorted)]>>
         ELSE sorted \o <<x>>

RECURSIVE SortCells(_, _, _)
SortCells(cells, i, sorted) ==
    IF i > Len(cells) THEN sorted
    ELSE SortCells(cells, i + 1, InsertSorted(sorted, cells[i]))

\* max([c ColIndex for c in cells])
RECURSIVE MaxColIndex(_, _)
MaxColIndex(cells, i) ==
    IF i = Len(cells) THEN ColIndex(cells[i])
    ELSE LET m == MaxColIndex(cells, i + 1)
         IN  IF ColIndex(cells[i]) > m THEN ColIndex(cells[i]) ELSE m

\* a row as wide as the first cell of the sorted list needs
new_row_of_first_cell(cells) == [c \in 1..(ColIndex(cells[1]) + 1) |-> ""]

\* line 275: [''] * (max(...) + 1); a count below 1 gives the empty list
new_row(cells) == [c \in 1..(MaxColIndex(cells, 1) + 1) |-> ""]

\* lines 279-283: the text found under the cell's path
RECURSIVE cell_text(_, _, _)
cell_text(cell, all_elements, i) ==
    IF i > Len(all_elements) THEN ""
    ELSE LET element == all_elements[i]
             rest == cell_text(cell, all_elements, i + 1)
         IN  IF /\ StartsWith(Get(element, "Path", ""), Get(cell, "Path", ""))
                /\ EndsWith(Get(element, "Path", ""), "/P")
                /\ "Text" \in DOMAIN element
             THEN Get(element, "Text", "") \o " " \o rest
             ELSE rest

\* lines 285-286 (the column indices of the modelled inputs are not negative)
place_cell(current_row, col_idx, text) ==
    IF col_idx < Len(current_row)
    THEN [current_row EXCEPT ![col_idx + 1] = text]
    ELSE current_row

\* lines 268-286: one record st = (table_data, current_row, current_row_idx)
RECURSIVE cell_loop(_, _, _, _)
cell_loop(cells, all_elements, i, st) ==
    IF i > Len(cells) THEN st
    ELSE LET cell == cells[i]
             row_idx == RowIndex(cell)
             col_idx == ColIndex(cell)
             flushed == IF row_idx # st.current_row_idx
                        THEN [table_data |->
                                  IF Len(st.current_row) > 0
                                  THEN Append(st.table_data, st.current_row)
                                  ELSE st.table_data,
                              current_row |-> new_row(cells),
                              current_row_idx |-> row_idx]
                        ELSE st
             text == Strip(cell_text(cell, all_elements, 1))
         IN  cell_loop(cells, all_elements, i + 1,
                       [flushed EXCEPT
                            !.current_row = place_cell(@, col_idx, text)])

extract_table_data(table_element, all_elements) ==
    LET table_path == Get(table_element, "Path", "")
        cells == SortCells(table_cells(table_path, all_elements, 1), 1, <<>>)
    IN  IF Len(cells) > 0
        THEN LET st == cell_loop(cells, all_elements, 1,
                                 [table_data |-> <<>>,
                                  current_row |-> <<>>,
                                  current_row_idx |-> -1])
             IN  IF Len(st.current_row) > 0
                 THEN Append(st.table_data, st.current_row)
                 ELSE st.table_data
        ELSE <<>>

(***************************************************************************)
(* AdobePDFExtractor._extract_text_by_page, _extract_tables_from_elements, *)
(* _extract_images_from_elements.  Each starts from a dict with the keys   *)
(* range(page_count); indexing it with another page raises KeyError.       *)
(***************************************************************************)
IsParagraph(element) ==
    /\ StartsWith(Get(element, "Path", ""), "//Document/P")
    /\ "Text" \in DOMAIN element

IsTable(element) == StartsWith(Get(element, "Path", ""), "//Document/Table")

IsFigure(element) == StartsWith(Get(element, "Path", ""), "//Document/Figure")

RECURSIVE text_loop(_, _, _)
text_loop(elements, i, text_by_page) ==
    IF i > Len(elements) THEN Ok(text_by_page)
    ELSE LET element == elements[i]
             page_num == Get(element, "Page", 0)
         IN  IF IsParagraph(element)
             THEN IF page_num \in DOMAIN text_by_page
                  THEN text_loop(elements, i + 1,
                           [text_by_page EXCEPT
                                ![page_num] = @ \o Get(element, "Text", "") \o " "])
                  ELSE Raise("KeyError")
             ELSE text_loop(elements, i + 1, text_by_page)

\* the page texts without the clean-up of lines 303-304
extract_text_by_page_unstripped(elements, page_count) ==
    text_loop(elements, 1, [p \in Range(page_count) |-> ""])

extract_text_by_page(elements, page_count) ==
    LET r == text_loop(elements, 1, [p \in Range(page_count) |-> ""])
    IN  IF r.exc = ""
        THEN Ok([p \in DOMAIN r.value |-> Strip(r.value[p])])
        ELSE r

table_info(element, elements, n) ==
    [table_id |-> "t" \o ToString(n + 1),
     data |-> extract_table_data(element, elements),
     bounds |-> Get(element, "Bounds", <<>>),
     bbox |-> Get(Get(element, "attributes", EmptyDict), "BBox", <<>>),
     num_rows |-> Get(Get(element, "attributes", EmptyDict), "NumRow", 0),
     placement |-> Get(Get(element, "attributes", EmptyDict), "Placement", "Unknown")]

RECURSIVE tables_loop(_, _, _)
tables_loop(elements, i, tables_by_page) ==
    IF i > Len(elements) THEN Ok(tables_by_page)
    ELSE LET element == elements[i]
             page_num == Get(element, "Page", 0)
         IN  IF IsTable(element)
             THEN IF page_num \in DOMAIN tables_by_page
                  THEN tables_loop(elements, i + 1,
                           [tables_by_page EXCEPT
                                ![page_num] = Append(@,
                                    table_info(element, elements, Len(@)))])
                  ELSE Raise("KeyError")
             ELSE tables_loop(elements, i + 1, tables_by_page)

extract_tables_from_elements(elements, page_count) ==
    tables_loop(elements, 1, [p \in Range(page_count) |-> <<>>])

\* the image id numbered from 0
image_info_from_zero(element, elements, page_num, n) ==
    LET image_id == "i" \o ToString(n)
    IN  [image_id |-> image_id,
         path |-> "images/page" \o ToString(page_num + 1) \o "_" \o image_id \o ".png",
         caption |-> extract_image_caption(element, elements),
         bounds |-> Get(element, "Bounds", <<>>),
         bbox |-> Get(Get(element, "attributes", EmptyDict), "BBox", <<>>),
         placement |-> Get(Get(element, "attributes", EmptyDict), "Placement", "Unknown")]

image_info(element, elements, page_num, n) ==
    LET image_id == "i" \o ToString(n + 1)
    IN  [image_id |-> image_id,
         path |-> "images/page" \o ToString(page_num + 1) \o "_" \o image_id \o ".png",
         caption |-> extract_image_caption(element, elements),
         bounds |-> Get(element, "Bounds", <<>>),
         bbox |-> Get(Get(element, "attributes", EmptyDict), "BBox", <<>>),
         placement |-> Get(Get(element, "attributes", EmptyDict), "Placement", "Unknown")]

RECURSIVE images_loop(_, _, _)
images_loop(elements, i, images_by_page) ==
    IF i > Len(elements) THEN Ok(images_by_page)
    ELSE LET element == elements[i]
             page_num == Get(element, "Page", 0)
         IN  IF IsFigure(element)
             THEN IF page_num \in DOMAIN images_by_page
                  THEN images_loop(elements, i + 1,
                           [images_by_page EXCEPT
                                ![page_num] = Append(@,
                                    image_info(element, elements, page_num, Len(@)))])
                  ELSE Raise("KeyError")
             ELSE images_loop(elements, i + 1, images_by_page)

extract_images_from_elements(elements, page_count) ==
    images_loop(elements, 1, [p \in Range(page_count) |-> <<>>])

(***************************************************************************)
(* AdobePDFExtractor._restructure_output                                   *)
(***************************************************************************)
page_data(page_num, text_by_page, tables_by_page, images_by_page) ==
    [page_number |-> page_num + 1,
     text |-> Get(text_by_page, page_num, ""),
     tables |-> Get(tables_by_page, page_num, <<>>),
     images |-> Get(images_by_page, page_num, <<>>)]

restructure_output(data, filename) ==
    LET extended_metadata == Get(data, "extended_metadata", EmptyDict)
        page_count == Get(extended_metadata, "page_count", 0)
        elements == Get(data, "elements", <<>>)
        text_by_page == extract_text_by_page(elements, page_count)
        tables_by_page == extract_tables_from_elements(elements, page_count)
        images_by_page == extract_images_from_elements(elements, page_count)
    IN  IF text_by_page.exc # "" THEN text_by_page
        ELSE IF tables_by_page.exc # "" THEN tables_by_page
        ELSE IF images_by_page.exc # "" THEN images_by_page
        ELSE Ok([document_id |-> Stem(filename),
                 metadata |->
                     [source |-> filename,
                      page_count |-> page_count,
                      pdf_version |-> Get(extended_metadata, "pdf_version", ""),
                      language |-> Get(extended_metadata, "language", ""),
                      extraction_timestamp |->
                          Get(extended_metadata, "ID_instance", "")],
                 pages |->
                     [n \in 1..(IF page_count > 0 THEN page_count ELSE 0) |->
                         page_data(n - 1, text_by_page.value,
                                   tables_by_page.value, images_by_page.value)]])

(***************************************************************************)
(* ExtractionVerifier.verify_structure                                     *)
(***************************************************************************)
\* not d.get(k), for a str or list value: the key is absent or its value is empty
Falsy(d, k) == k \notin DOMAIN d \/ Len(d[k]) = 0

\* missing_keys leaving the loop at the first missing key
RECURSIVE missing_keys_first_only(_, _, _, _)
missing_keys_first_only(d, keys, i, prefix) ==
    IF i > Len(keys) THEN <<>>
    ELSE IF keys[i] \notin DOMAIN d THEN <<prefix \o keys[i]>>
    ELSE missing_keys_first_only(d, keys, i + 1, prefix)

\* the issues of `keys` (in order) missing from dict d, each after `prefix`
RECURSIVE missing_keys(_, _, _, _)
missing_keys(d, keys, i, prefix) ==
    IF i > Len(keys) THEN <<>>
    ELSE (IF keys[i] \notin DOMAIN d THEN <<prefix \o keys[i]>> ELSE <<>>)
             \o missing_keys(d, keys, i + 1, prefix)

\* the table checks without the check of data
table_checks_id_only(table, j, page_num) ==
    LET where == "Page " \o ToString(page_num) \o ": Table t" \o ToString(j)
    IN  IF Falsy(table, "table_id") THEN <<where \o " missing table_id">> ELSE <<>>

\* lines 82-85: the issues of the j-th table of page page_num
table_checks(table, j, page_num) ==
    LET where == "Page " \o ToString(page_num) \o ": Table t" \o ToString(j)
    IN  (IF Falsy(table, "table_id") THEN <<where \o " missing table_id">> ELSE <<>>)
            \o (IF Falsy(table, "data") THEN <<where \o " missing data">> ELSE <<>>)

\* lines 80-85
RECURSIVE table_issues(_, _, _)
table_issues(tables, j, page_num) ==
    IF j > Len(tables) THEN <<>>
    ELSE table_checks(tables[j], j, page_num) \o table_issues(tables, j + 1, page_num)

\* lines 91-94: the issues of the j-th image of page page_num
image_checks(image, j, page_num) ==
    LET where == "Page " \o ToString(page_num) \o ": Image i" \o ToString(j)
    IN  (IF Falsy(image, "image_id") THEN <<where \o " missing image_id">> ELSE <<>>)
            \o (IF Falsy(image, "path") THEN <<where \o " missing path">> ELSE <<>>)

\* lines 89-94
RECURSIVE image_issues(_, _, _)
image_issues(images, j, page_num) ==
    IF j > Len(images) THEN <<>>
    ELSE image_checks(images[j], j, page_num) \o image_issues(images, j + 1, page_num)

\* lines 66-94: page_num is the 1-based position of the page
RECURSIVE page_issues(_, _)
page_issues(pages, page_num) ==
    IF page_num > Len(pages) THEN <<>>
    ELSE LET page == pages[page_num]
             where == "Page " \o ToString(page_num) \o ": "
         IN  missing_keys(page, <<"page_number", "text", "tables", "images">>, 1,
                          where \o "Missing required key: ")
                 \o (IF "page_number" \notin DOMAIN page
                     THEN <<where \o "Page number mismatch: expected "
                                \o ToString(page_num) \o ", got None">>
                     ELSE IF page.page_number # page_num
                     THEN <<where \o "Page number mismatch: expected "
                                \o ToString(page_num) \o ", got "
                                \o ToString(page.page_number)>>
                     ELSE <<>>)
                 \o table_issues(Get(page, "tables", <<>>), 1, page_num)
                 \o image_issues(Get(page, "images", <<>>), 1, page_num)
                 \o page_issues(pages, page_num + 1)

\* sum(...) of a list of numbers
RECURSIVE Sum(_, _)
Sum(numbers, i) ==
    IF i > Len(numbers) THEN 0 ELSE numbers[i] + Sum(numbers, i + 1)

structure_summary(pages) ==
    LET NTables(page) == Len(Get(page, "tables", <<>>))
        NImages(page) == Len(Get(page, "images", <<>>))
        NText(page) == Len(Get(page, "text", ""))
        HasContent(page) ==
            IF NText(page) > 0 \/ NTables(page) > 0 \/ NImages(page) > 0 THEN 1 ELSE 0
    IN  [total_pages |-> Len(pages),
         total_tables |-> Sum([i \in 1..Len(pages) |-> NTables(pages[i])], 1),
         total_images |-> Sum([i \in 1..Len(pages) |-> NImages(pages[i])], 1),
         total_text_length |-> Sum([i \in 1..Len(pages) |-> NText(pages[i])], 1),
         pages_with_content |-> Sum([i \in 1..Len(pages) |-> HasContent(pages[i])], 1)]

\* the message with the two numbers exchanged
page_count_issue_swapped(pages, expected_pages) ==
    IF Len(pages) # expected_pages
    THEN <<"Page count mismatch: expected " \o ToString(Len(pages)) \o ", got "
               \o ToString(expected_pages)>>
    ELSE <<>>

\* lines 62-63
page_count_issue(pages, expected_pages) ==
    IF Len(pages) # expected_pages
    THEN <<"Page count mismatch: expected " \o ToString(expected_pages) \o ", got "
               \o ToString(Len(pages))>>
    ELSE <<>>

\* lines 51-94: the issues found once the top-level keys are there
structure_issues(data) ==
    LET metadata == Get(data, "metadata", EmptyDict)
        pages == Get(data, "pages", <<>>)
    IN  missing_keys(metadata, <<"source", "page_count">>, 1, "Missing metadata key: ")
            \o page_count_issue(pages, Get(metadata, "page_count", 0))
            \o page_issues(pages, 1)

\* verify_structure without lines 105-106
verify_structure_without_final_check(data) ==
    LET top == missing_keys(data, <<"document_id", "metadata", "pages">>, 1,
                            "Missing required key: ")
    IN  IF Len(top) > 0
        THEN [structure_valid |-> FALSE, issues |-> top, structure_summary |-> EmptyDict]
        ELSE [structure_valid |-> TRUE,
              issues |-> structure_issues(data),
              structure_summary |-> structure_summary(Get(data, "pages", <<>>))]

verify_structure(data) ==
    LET top == missing_keys(data, <<"document_id", "metadata", "pages">>, 1,
                            "Missing required key: ")
    IN  IF Len(top) > 0
        THEN [structure_valid |-> FALSE, issues |-> top, structure_summary |-> EmptyDict]
        ELSE LET issues == structure_issues(data)
             IN  [structure_valid |-> Len(issues) = 0,
                  issues |-> issues,
                  structure_summary |-> structure_summary(Get(data, "pages", <<>>))]

(***************************************************************************)
(* ExtractionVerifier.verify_content_quality                               *)
(***************************************************************************)
\* str(list) of a list of numbers: "[1, 2]"
RECURSIVE PyListItems(_, _)
PyListItems(numbers, i) ==
    IF i > Len(numbers) THEN ""
    ELSE (IF i > 1 THEN ", " ELSE "") \o ToString(numbers[i])
             \o PyListItems(numbers, i + 1)

PyList(numbers) == "[" \o PyListItems(numbers, 1) \o "]"

\* len(text.split()): the number of runs of non-space characters
RECURSIVE WordCount(_, _)
WordCount(s, i) ==
    IF i > Len(s) THEN 0
    ELSE (IF SubSeq(s, i, i) # " " /\ (i = 1 \/ SubSeq(s, i - 1, i - 1) = " ")
          THEN 1 ELSE 0) + WordCount(s, i + 1)

\* line 128: not text and not tables and not images
is_empty_page(page) ==
    Falsy(page, "text") /\ Falsy(page, "tables") /\ Falsy(page, "images")

\* lines 121-129: the 1-based numbers of the empty pages
RECURSIVE empty_pages_from(_, _)
empty_pages_from(pages, page_num) ==
    IF page_num > Len(pages) THEN <<>>
    ELSE (IF is_empty_page(pages[page_num]) THEN <<page_num>> ELSE <<>>)
             \o empty_pages_from(pages, page_num + 1)

\* lines 136-146
RECURSIVE text_stats_from(_, _)
text_stats_from(pages, page_num) ==
    IF page_num > Len(pages) THEN <<>>
    ELSE LET text == Get(pages[page_num], "text", "")
         IN  (IF Len(text) > 0
              THEN <<[page |-> page_num,
                      length |-> Len(text),
                      word_count |-> WordCount(text, 1),
                      has_content |-> Strip(text) # ""]>>
              ELSE <<>>)
                 \o text_stats_from(pages, page_num + 1)

\* max(len(row) for row in data)
RECURSIVE MaxRowLen(_, _)
MaxRowLen(data, r) ==
    IF r = Len(data) THEN Len(data[r])
    ELSE LET rest == MaxRowLen(data, r + 1)
         IN  IF Len(data[r]) > rest THEN Len(data[r]) ELSE rest

\* line 162: some cell of some row is not blank
table_has_data(data) ==
    \E r \in 1..Len(data) : \E c \in 1..Len(data[r]) : Strip(data[r][c]) # ""

\* lines 153-163: the statistics of the tables of one page, from the j-th on
RECURSIVE table_stats_of_page(_, _, _)
table_stats_of_page(tables, j, page_num) ==
    IF j > Len(tables) THEN <<>>
    ELSE LET table == tables[j]
             data == Get(table, "data", <<>>)
         IN  (IF Len(data) > 0
              THEN <<[page |-> page_num,
                      table_id |-> Get(table, "table_id", "t" \o ToString(j)),
                      rows |-> Len(data),
                      columns |-> MaxRowLen(data, 1),
                      has_data |-> table_has_data(data)]>>
              ELSE <<>>)
                 \o table_stats_of_page(tables, j + 1, page_num)

\* lines 149-163
RECURSIVE table_stats_from(_, _)
table_stats_from(pages, page_num) ==
    IF page_num > Len(pages) THEN <<>>
    ELSE table_stats_of_page(Get(pages[page_num], "tables", <<>>), 1, page_num)
             \o table_stats_from(pages, page_num + 1)

\* bool(caption): the caption is neither None nor the empty string
has_caption(caption) == caption # None /\ caption[1] # ""

\* line 173: image.get("bounds") or image.get("bbox", [])
bounds_or_bbox(image) ==
    IF ~Falsy(image, "bounds") THEN image.bounds ELSE Get(image, "bbox", <<>>)

\* lines 171-181: the statistics of the j-th image of page page_num
image_stat(image, j, page_num) ==
    LET caption == Get(image, "caption", None)
        bounds == bounds_or_bbox(image)
    IN  [page |-> page_num,
         image_id |-> Get(image, "image_id", "i" \o ToString(j)),
         has_caption |-> has_caption(caption),
         has_bounds |-> Len(bounds) >= 4,
         caption_length |-> IF has_caption(caption) THEN Len(caption[1]) ELSE 0]

RECURSIVE image_stats_of_page(_, _, _)
image_stats_of_page(images, j, page_num) ==
    IF j > Len(images) THEN <<>>
    ELSE <<image_stat(images[j], j, page_num)>>
             \o image_stats_of_page(images, j + 1, page_num)

\* lines 166-181
RECURSIVE image_stats_from(_, _)
image_stats_from(pages, page_num) ==
    IF page_num > Len(pages) THEN <<>>
    ELSE image_stats_of_page(Get(pages[page_num], "images", <<>>), 1, page_num)
             \o image_stats_from(pages, page_num + 1)

\* lines 184-193
content_summary(text_stats, table_stats, image_stats) ==
    [text_pages |->
         Cardinality({i \in 1..Len(text_stats) : text_stats[i].has_content}),
     table_pages |-> Cardinality({table_stats[i].page : i \in 1..Len(table_stats)}),
     image_pages |-> Cardinality({image_stats[i].page : i \in 1..Len(image_stats)}),
     total_tables |-> Len(table_stats),
     total_images |-> Len(image_stats),
     tables_with_data |->
         Cardinality({i \in 1..Len(table_stats) : table_stats[i].has_data}),
     images_with_captions |->
         Cardinality({i \in 1..Len(image_stats) : image_stats[i].has_caption}),
     images_with_bounds |->
         Cardinality({i \in 1..Len(image_stats) : image_stats[i].has_bounds})]

\* the warnings, with one more for images without a caption
quality_warnings_with_captions(empty_pages, summary) ==
    (IF Len(empty_pages) > 0
     THEN <<"Empty pages detected: " \o PyList(empty_pages)>> ELSE <<>>)
        \o (IF summary.tables_with_data < summary.total_tables
            THEN <<"Some tables have no data">> ELSE <<>>)
        \o (IF summary.images_with_bounds < summary.total_images
            THEN <<"Some images missing bounds">> ELSE <<>>)
        \o (IF summary.images_with_captions < summary.total_images
            THEN <<"Some images missing captions">> ELSE <<>>)

\* lines 131-132, 199-200 and 203-204: the warnings, in the order they are appended
quality_warnings(empty_pages, summary) ==
    (IF Len(empty_pages) > 0
     THEN <<"Empty pages detected: " \o PyList(empty_pages)>> ELSE <<>>)
        \o (IF summary.tables_with_data < summary.total_tables
            THEN <<"Some tables have no data">> ELSE <<>>)
        \o (IF summary.images_with_bounds < summary.total_images
            THEN <<"Some images missing bounds">> ELSE <<>>)

\* content_quality without the assignments of lines 133 and 197
content_quality_tables_images_only(empty_pages, summary) ==
    IF \/ summary.tables_with_data < summary.total_tables
       \/ summary.images_with_bounds < summary.total_images
    THEN "warning" ELSE "good"

\* lines 113, 133, 197, 201 and 205: "good" unless one of the assignments ran
content_quality(empty_pages, summary) ==
    IF \/ Len(empty_pages) > 0
       \/ summary.tables_with_data < summary.total_tables
       \/ summary.images_with_bounds < summary.total_images
    THEN "warning" ELSE "good"

verify_content_quality(data) ==
    LET pages == Get(data, "pages", <<>>)
        empty_pages == empty_pages_from(pages, 1)
        summary == content_summary(text_stats_from(pages, 1),
                                   table_stats_from(pages, 1),
                                   image_stats_from(pages, 1))
    IN  [content_quality |-> content_quality(empty_pages, summary),
         warnings |-> quality_warnings(empty_pages, summary),
         content_summary |-> summary]

(***************************************************************************)
(* ExtractionVerifier: files, compare_with_original and                    *)
(* generate_verification_report                                            *)
(***************************************************************************)
\* self.output_dir of ExtractionVerifier(), relative to the working directory
output_dir == "outputs"

\* Path(filename).is_absolute()
IsAbsolute(filename) == StartsWith(filename, "/")

\* self.output_dir / filename
InOutputDir(filename) ==
    IF IsAbsolute(filename) THEN filename ELSE output_dir \o "/" \o filename

\* lines 22-25: the path load_extraction_result opens
file_path(filename) ==
    IF IsAbsolute(filename) \/ StartsWith(filename, "outputs/")
    THEN filename
    ELSE InOutputDir(filename)

\* lines 19-31
load_extraction_result(fs, filename) ==
    IF file_path(filename) \notin DOMAIN fs
    THEN [exc |-> "FileNotFoundError",
          message |-> "Extraction result file not found: " \o file_path(filename)]
    ELSE Ok(fs[file_path(filename)].json)

\* s.replace(old, new)
RECURSIVE Replace(_, _, _)
Replace(s, old, new) ==
    IF Len(s) < Len(old) THEN s
    ELSE IF SubSeq(s, 1, Len(old)) = old
    THEN new \o Replace(SubSeq(s, Len(old) + 1, Len(s)), old, new)
    ELSE SubSeq(s, 1, 1) \o Replace(SubSeq(s, 2, Len(s)), old, new)

\* path.split("/")[-1]
RECURSIVE LastSegment(_)
LastSegment(path) ==
    IF ~Contains(path, "/") THEN path
    ELSE LastSegment(SubSeq(path, 2, Len(path)))

\* lines 233-237: the element types in the order of their first element
RECURSIVE element_types(_, _, _)
element_types(original_elements, i, seen) ==
    IF i > Len(original_elements) THEN seen
    ELSE LET path == Get(original_elements[i], "Path", "")
             element_type == LastSegment(path)
         IN  IF StartsWith(path, "//Document/")
                    /\ \A k \in 1..Len(seen) : seen[k] # element_type
             THEN element_types(original_elements, i + 1, Append(seen, element_type))
             ELSE element_types(original_elements, i + 1, seen)

\* lines 232-237: element_counts
element_counts(original_elements) ==
    LET types == element_types(original_elements, 1, <<>>)
    IN  [t \in {types[k] : k \in 1..Len(types)} |->
            Cardinality({i \in 1..Len(original_elements) :
                /\ StartsWith(Get(original_elements[i], "Path", ""), "//Document/")
                /\ LastSegment(Get(original_elements[i], "Path", "")) = t})]

\* lines 240-244
restructured_counts(pages) ==
    [tables |-> Sum([i \in 1..Len(pages) |-> Len(Get(pages[i], "tables", <<>>))], 1),
     images |-> Sum([i \in 1..Len(pages) |-> Len(Get(pages[i], "images", <<>>))], 1),
     text |-> Cardinality({i \in 1..Len(pages) : ~Falsy(pages[i], "text")})]

\* lines 248-251: the difference of one entry of element_counts
count_difference(elem_type, count, counts) ==
    IF elem_type = "Table" /\ count # counts.tables
    THEN <<"Table count: restructured=" \o ToString(counts.tables)
               \o ", original=" \o ToString(count)>>
    ELSE IF elem_type = "Figure" /\ count # counts.images
    THEN <<"Image count: restructured=" \o ToString(counts.images)
               \o ", original=" \o ToString(count)>>
    ELSE <<>>

\* lines 247-251
RECURSIVE count_differences(_, _, _, _)
count_differences(types, k, original_counts, counts) ==
    IF k > Len(types) THEN <<>>
    ELSE count_difference(types[k], original_counts[types[k]], counts)
             \o count_differences(types, k + 1, original_counts, counts)

\* lines 209-262
compare_with_original(fs, restructured_file, original_file) ==
    LET loaded == load_extraction_result(fs, restructured_file)
        original == load_extraction_result(fs, original_file)
    IN  IF loaded.exc # ""
        THEN [comparison_valid |-> FALSE, error |-> loaded.message]
        ELSE IF original.exc # ""
        THEN [comparison_valid |-> FALSE, error |-> original.message]
        ELSE LET restructured_pages ==
                     Get(Get(loaded.value, "metadata", EmptyDict), "page_count", 0)
                 original_pages ==
                     Get(Get(original.value, "extended_metadata", EmptyDict),
                         "page_count", 0)
                 original_elements == Get(original.value, "elements", <<>>)
                 counts == restructured_counts(Get(loaded.value, "pages", <<>>))
                 differences ==
                     (IF restructured_pages # original_pages
                      THEN <<"Page count: restructured=" \o ToString(restructured_pages)
                                 \o ", original=" \o ToString(original_pages)>>
                      ELSE <<>>)
                         \o count_differences(element_types(original_elements, 1, <<>>),
                                              1, element_counts(original_elements),
                                              counts)
             IN  [comparison_valid |-> Len(differences) = 0,
                  differences |-> differences,
                  summary |->
                      [original_elements |-> element_counts(original_elements),
                       restructured_elements |-> counts,
                       page_count_match |-> restructured_pages = original_pages]]

\* the branches taken in another order: the quality is looked at first
overall_assessment_quality_first(structure_valid, quality) ==
    IF quality = "warning" THEN "good"
    ELSE IF structure_valid /\ quality = "good" THEN "excellent"
    ELSE IF ~structure_valid THEN "poor"
    ELSE "fair"

\* lines 289-296
overall_assessment(structure_valid, quality) ==
    IF structure_valid /\ quality = "good" THEN "excellent"
    ELSE IF structure_valid /\ quality = "warning" THEN "good"
    ELSE IF ~structure_valid THEN "poor"
    ELSE "fair"

\* lines 264-298; Path(filename).stat() of line 274 raises when the working
\* directory holds no such file
generate_verification_report(fs, filename, include_comparison) ==
    LET loaded == load_extraction_result(fs, filename)
    IN  IF loaded.exc # ""
        THEN Ok([verification_complete |-> FALSE, error |-> loaded.message])
        ELSE IF filename \notin DOMAIN fs
        THEN Raise("FileNotFoundError")
        ELSE LET data == loaded.value
                 original_file == Replace(filename, "_restructured", "_original")
                 structure == verify_structure(data)
                 content == verify_content_quality(data)
                 report ==
                     [verification_complete |-> TRUE,
                      filename |-> filename,
                      timestamp |-> fs[filename].st_mtime,
                      structure_verification |-> structure,
                      content_verification |-> content,
                      overall_assessment |->
                          overall_assessment(structure.structure_valid,
                                             content.content_quality)]
             IN  IF include_comparison /\ InOutputDir(original_file) \in DOMAIN fs
                 THEN Ok([k \in DOMAIN report \cup {"comparison"} |->
                             IF k = "comparison"
                             THEN compare_with_original(fs, filename, original_file)
                             ELSE report[k]])
                 ELSE Ok(report)

(***************************************************************************)
(* main of verify_extraction.py: the exit status of the command line.      *)
(***************************************************************************)
\* lines 300-306: output_dir / "<stem of the report's filename>_verification_report.json"
report_path(report) ==
    output_dir \o "/" \o Stem(LastSegment(report.filename)) \o "_verification_report.json"

\* line 379
exit_status(report) ==
    IF report.overall_assessment \in {"excellent", "good"} THEN 0 ELSE 1

\* lines 324-383: the status main returns; an exception of the report ends in
\* the handler of lines 381-383
main(fs, file, compare) ==
    LET made == generate_verification_report(fs, file, compare)
    IN  IF made.exc # "" THEN 1
        ELSE IF ~made.value.verification_complete THEN 1
        ELSE exit_status(made.value)

\* lines 374-377: the report file main writes (the output directory exists,
\* AdobePDFExtractor.__init__ having created it)
files_after_main(fs, file, compare, save_report) ==
    LET made == generate_verification_report(fs, file, compare)
    IN  IF made.exc = "" /\ made.value.verification_complete /\ save_report
        THEN (report_path(made.value) :> [st_mtime |-> "1730000001.0",
                                          json |-> made.value]) @@ fs
        ELSE fs

(***************************************************************************)
(* Inputs.  The raw extraction result handed to _restructure_output is     *)
(* drawn from four families of element lists, each built from the element  *)
(* shapes the code reads (Path, Page, Text, Bounds, attributes).           *)
(***************************************************************************)
MaxPages == 2

MaxElements == 3

MaxCells == 3

MaxParagraphs == 3

\* a paragraph, figures, tables and a cell paragraph spread over two pages
DocElements ==
    {[Path |-> "//Document/P", Text |-> "Hello"],
     [Path |-> "//Document/Figure", Page |-> 0, Bounds |-> <<120, 500, 200, 520>>,
      attributes |-> [BBox |-> <<120, 500, 200, 520>>, Placement |-> "Block"]],
     [Path |-> "//Document/Figure[2]", Page |-> 1, Bounds |-> <<100, 500, 200, 520>>],
     [Path |-> "//Document/Table", Page |-> 0, attributes |-> [NumRow |-> 1]],
     [Path |-> "//Document/Table/TR/TD/P", Page |-> 0, Text |-> "A"],
     [Path |-> "//Document/Table[2]", Page |-> 1]}

\* texts: empty, padded, absent, on another page, under another tag
TextElements ==
    {[Path |-> "//Document/P", Page |-> 0, Text |-> "Hello"],
     [Path |-> "//Document/P", Page |-> 0, Text |-> "World"],
     [Path |-> "//Document/P[2]", Page |-> 0, Text |-> ""],
     [Path |-> "//Document/P[3]", Text |-> " pad "],
     [Path |-> "//Document/P[4]", Page |-> 1, Text |-> "Next"],
     [Path |-> "//Document/P[5]", Page |-> 0],
     [Path |-> "//Document/H1", Page |-> 0, Text |-> "Title"]}

TableRoot == [Path |-> "//Document/Table", Page |-> 0]

\* cells of TableRoot and one of the next table, with and without indices and text
CellElements ==
    {[Path |-> "//Document/Table/TR/TD/P", Page |-> 0, Text |-> "A",
      attributes |-> [RowIndex |-> 0, ColIndex |-> 0]],
     [Path |-> "//Document/Table/TR/TD[2]/P", Page |-> 0, Text |-> "B",
      attributes |-> [RowIndex |-> 0, ColIndex |-> 1]],
     [Path |-> "//Document/Table/TR[2]/TD/P", Page |-> 0, Text |-> "C",
      attributes |-> [RowIndex |-> 1, ColIndex |-> 0]],
     [Path |-> "//Document/Table/TR[2]/TD[2]", Page |-> 0,
      attributes |-> [RowIndex |-> 1, ColIndex |-> 1]],
     [Path |-> "//Document/Table/TR[2]/TD[2]/P", Page |-> 0, Text |-> "D"],
     [Path |-> "//Document/Table/TR[3]/TD[3]/P[2]", Page |-> 0, Text |-> "E",
      attributes |-> [RowIndex |-> 2, ColIndex |-> 2]],
     [Path |-> "//Document/Table/TR/TD/P", Page |-> 0, Text |-> " A2",
      attributes |-> [RowIndex |-> 0, ColIndex |-> 0]],
     [Path |-> "//Document/Table[2]/TR/TD/P", Page |-> 0, Text |-> "X",
      attributes |-> [RowIndex |-> 0, ColIndex |-> 1]]}

\* the image of the caption scenarios
BoundedFigure ==
    [Path |-> "//Document/Figure", Page |-> 0, Bounds |-> <<100, 500, 200, 520>>]

\* an image with three bound coordinates, and one with none
UnboundedFigures ==
    {[Path |-> "//Document/Figure", Page |-> 0, Bounds |-> <<100, 500, 200>>],
     [Path |-> "//Document/Figure", Page |-> 0]}

\* paragraphs around the image <<100, 500, 200, 520>>, on both sides of each test
CaptionElements ==
    {[Path |-> "//Document/P", Page |-> 0, Text |-> "Figure 1: demo",
      Bounds |-> <<100, 450, 180, 460>>],
     [Path |-> "//Document/P[2]", Page |-> 0, Text |-> "far",
      Bounds |-> <<100, 380, 180, 390>>],
     [Path |-> "//Document/P[3]", Page |-> 0, Text |-> "edge",
      Bounds |-> <<149, 401, 180, 411>>],
     [Path |-> "//Document/P[4]", Page |-> 0, Text |-> "right",
      Bounds |-> <<150, 460, 180, 470>>],
     [Path |-> "//Document/P[6]", Page |-> 0, Text |-> "tie",
      Bounds |-> <<51, 450, 90, 460>>],
     [Path |-> "//Document/P[7]", Page |-> 0, Text |-> "hundred",
      Bounds |-> <<100, 400, 180, 410>>],
     [Path |-> "//Document/P[5]", Page |-> 0, Text |-> "left",
      Bounds |-> <<50, 470, 90, 480>>],
     [Path |-> "//Document/P[8]", Page |-> 0, Text |-> "level",
      Bounds |-> <<100, 500, 180, 510>>],
     [Path |-> "//Document/P[10]", Page |-> 0, Text |-> "short",
      Bounds |-> <<100, 490, 180>>],
     [Path |-> "//Document/P[11]", Page |-> 0, Bounds |-> <<100, 495, 180, 499>>]}

raw(page_count, elements) ==
    [extended_metadata |-> [page_count |-> page_count], elements |-> elements]

(***************************************************************************)
(* The state machine: one raw extraction result, the Document made of it   *)
(* and the result of a call of a helper or of the verifier.  The methods   *)
(* read their arguments only and keep nothing between calls, so a          *)
(* behaviour is one call on the input, verify_structure following the      *)
(* _restructure_output whose Document it is given.                         *)
(***************************************************************************)
NotCalled == [exc |-> "not called"]

\* no batch was started, no Textract job either
NoBatch ==
    /\ pc = "idle"
    /\ pdf_files = <<>>
    /\ verify_results = FALSE
    /\ results = NotCalled

NoTextract ==
    /\ job = NotCalled
    /\ result = None
    /\ all_blocks = <<>>
    /\ next_token = None

NoCall == [op |-> "none"]

\* a document of any page count, also a negative one
DocInput ==
    \E n \in (-1)..MaxPages, k \in 0..MaxElements :
        \E es \in [1..k -> DocElements] : adobe_data = raw(n, es)

\* paragraphs of one or several pages
TextInput ==
    \E n \in 1..MaxPages, k \in 0..MaxElements :
        \E es \in [1..k -> TextElements] : adobe_data = raw(n, es)

\* one table and its cells
TableInput ==
    \E k \in 0..MaxCells :
        \E es \in [1..k -> CellElements] : adobe_data = raw(1, <<TableRoot>> \o es)

\* one image and the paragraphs around it
FigureInput ==
    \/ \E k \in 0..MaxParagraphs :
           \E es \in [1..k -> CaptionElements] :
               adobe_data = raw(1, <<BoundedFigure>> \o es)
    \/ \E f \in UnboundedFigures, e \in CaptionElements : adobe_data = raw(1, <<f, e>>)

\* the image on the first page and one paragraph on the second
CrossPageInput ==
    \E e \in CaptionElements :
        adobe_data = raw(2, <<BoundedFigure, [e EXCEPT !.Page = 1]>>)

Init ==
    /\ DocInput \/ TextInput \/ TableInput \/ FigureInput \/ CrossPageInput
    /\ pdf_filename = "sample.pdf"
    /\ restructured = NotCalled
    /\ ret = NoCall
    /\ files = EmptyDict
    /\ calls = <<>>
    /\ NoBatch
    /\ NoTextract

\* nothing was called yet
Idle == restructured = NotCalled /\ ret = NoCall

\* _restructure_output(adobe_data, pdf_filename)
RestructureOutput ==
    /\ Idle
    /\ restructured' = restructure_output(adobe_data, pdf_filename)
    /\ UNCHANGED <<adobe_data, pdf_filename, ret, files, calls,
                   pc, batch_vars, textract_vars>>

\* _extract_table_data(elements[i], elements), called for the elements of line 227
ExtractTableData ==
    \E i \in 1..Len(adobe_data.elements) :
        /\ Idle
        /\ IsTable(adobe_data.elements[i])
        /\ ret' = [op |-> "extract_table_data", arg |-> i,
                   value |-> extract_table_data(adobe_data.elements[i],
                                                adobe_data.elements)]
        /\ UNCHANGED <<adobe_data, pdf_filename, restructured, files, calls,
                       pc, batch_vars, textract_vars>>

\* _extract_image_caption(elements[i], elements), called for the elements of line 174
ExtractImageCaption ==
    \E i \in 1..Len(adobe_data.elements) :
        /\ Idle
        /\ IsFigure(adobe_data.elements[i])
        /\ ret' = [op |-> "extract_image_caption", arg |-> i,
                   value |-> extract_image_caption(adobe_data.elements[i],
                                                   adobe_data.elements)]
        /\ UNCHANGED <<adobe_data, pdf_filename, restructured, files, calls,
                       pc, batch_vars, textract_vars>>

\* verify_structure(data), data being the Document _restructure_output returned
VerifyStructure ==
    /\ restructured.exc = ""
    /\ ret = NoCall
    /\ ret' = [op |-> "verify_structure", arg |-> 0,
               value |-> verify_structure(restructured.value)]
    /\ UNCHANGED <<adobe_data, pdf_filename, restructured, files, calls,
                   pc, batch_vars, textract_vars>>

Next ==
    \/ RestructureOutput
    \/ ExtractTableData
    \/ ExtractImageCaption
    \/ VerifyStructure

Spec == Init /\ [][Next]_vars

(***************************************************************************)
(* The verifier's state machine: the files of the working directory and    *)
(* the result of one call of the verifier on them.                         *)
(***************************************************************************)
MaxDocPages == 2

MaxRawElements == 2

\* tables: with data, with an empty grid, without the data key, with blank cells
GoodTable == [table_id |-> "t1", data |-> <<<<"A", "B">>, <<"C", "">>>>]

EmptyTable == [table_id |-> "t1", data |-> <<>>]

NoDataTable == [table_id |-> "t2"]

BlankTable == [table_id |-> "", data |-> <<<<"", " ">>>>]

\* images: complete, with a null caption, with a bbox only, with three bound
\* coordinates beside a full bbox, with neither bounds nor bbox
GoodImage ==
    [image_id |-> "i1", path |-> "images/page1_i1.png", caption |-> Some("Figure 1"),
     bounds |-> <<100, 500, 200, 520>>, bbox |-> <<>>]

NullCaptionImage ==
    [image_id |-> "i1", path |-> "images/page1_i1.png", caption |-> None,
     bounds |-> <<100, 500, 200, 520>>, bbox |-> <<100, 500, 200, 520>>]

BBoxOnlyImage ==
    [path |-> "images/page2_i1.png", caption |-> Some(""),
     bbox |-> <<100, 500, 200, 520>>]

ShortBoundsImage ==
    [image_id |-> "i1", path |-> "images/page1_i1.png", caption |-> Some("Fig"),
     bounds |-> <<100, 500, 200>>, bbox |-> <<100, 500, 200, 520>>]

NoBoundsImage == [image_id |-> "i2", path |-> "", caption |-> None]

PageShapes ==
    {[page_number |-> 1, text |-> "Hello World", tables |-> <<>>, images |-> <<>>],
     [page_number |-> 2, text |-> "Next", tables |-> <<GoodTable>>,
      images |-> <<GoodImage>>],
     [page_number |-> 1, text |-> "", tables |-> <<>>, images |-> <<>>],
     [page_number |-> 2],
     [text |-> "x", tables |-> <<>>, images |-> <<>>],
     [page_number |-> 1, text |-> " ", tables |-> <<EmptyTable>>, images |-> <<>>],
     [page_number |-> 2, text |-> "", tables |-> <<NoDataTable, BlankTable>>,
      images |-> <<>>],
     [page_number |-> 1, text |-> "", tables |-> <<>>,
      images |-> <<NullCaptionImage>>],
     [page_number |-> 1, text |-> "T", tables |-> <<GoodTable>>,
      images |-> <<ShortBoundsImage>>],
     [page_number |-> 2, text |-> "", tables |-> <<>>,
      images |-> <<BBoxOnlyImage, NoBoundsImage>>],
     [page_number |-> 1, text |-> "", tables |-> <<BlankTable>>,
      images |-> <<GoodImage>>]}

MetaShapes ==
    {[source |-> "sample.pdf", page_count |-> 1],
     [source |-> "sample.pdf", page_count |-> 2],
     [page_count |-> 2],
     [source |-> "sample.pdf"],
     [source |-> "sample.pdf", page_count |-> -1]}

TopLevelKeys == {"document_id", "metadata", "pages"}

Doc(metadata, pages) ==
    [document_id |-> "sample", metadata |-> metadata, pages |-> pages]

\* the dict d without the keys outside `keys`
Restrict(d, keys) == [k \in DOMAIN d \cap keys |-> d[k]]

\* a file of the directory: its modification time and its parsed JSON
File(json) == [st_mtime |-> "1730000000.0", json |-> json]

RestructuredPath == "/data/sample_restructured.json"

\* the elements of an original Adobe result, by the last segment of their path
RawElements ==
    {[Path |-> "//Document/Table", Page |-> 0],
     [Path |-> "//Document/Table[2]", Page |-> 0],
     [Path |-> "//Document/Figure", Page |-> 0],
     [Path |-> "//Document/Sect/Figure", Page |-> 0],
     [Path |-> "//Other/Table", Page |-> 0]}

\* documents with 0, 1 and 2 tables and images
CompareDocs ==
    {Doc([source |-> "sample.pdf", page_count |-> n], pages) :
        n \in 1..2,
        pages \in
            {<<[page_number |-> 1, text |-> "Hello World", tables |-> <<>>,
                images |-> <<>>]>>,
             <<[page_number |-> 1, text |-> "T", tables |-> <<GoodTable>>,
                images |-> <<ShortBoundsImage>>]>>,
             <<[page_number |-> 1, text |-> "", tables |-> <<NoDataTable, BlankTable>>,
                images |-> <<>>],
               [page_number |-> 2, text |-> "", tables |-> <<>>,
                images |-> <<BBoxOnlyImage, NoBoundsImage>>]>>}}

\* where the restructured and the original file lie: under an absolute path,
\* in the output directory, in the output directory with a copy of the
\* restructured file in the working directory
Layouts(doc, original) ==
    {("/data/sample_restructured.json" :> File(doc))
         @@ ("/data/sample_original.json" :> File(original)),
     ("outputs/sample_restructured.json" :> File(doc))
         @@ ("outputs/sample_original.json" :> File(original)),
     ("outputs/sample_restructured.json" :> File(doc))
         @@ ("sample_restructured.json" :> File(doc))
         @@ ("outputs/sample_original.json" :> File(original))}

\* a restructured file with all its top-level fields
FullDocInput ==
    \E metadata \in MetaShapes, k \in 0..MaxDocPages :
        \E pages \in [1..k -> PageShapes] :
            files = (RestructuredPath :> File(Doc(metadata, pages)))

\* a restructured file that lacks top-level fields
PartialDocInput ==
    \E metadata \in MetaShapes, k \in 0..1, keys \in SUBSET TopLevelKeys :
        \E pages \in [1..k -> PageShapes] :
            /\ keys # TopLevelKeys
            /\ files = (RestructuredPath :> File(Restrict(Doc(metadata, pages), keys)))

\* a restructured file and the original Adobe result beside it
CompareInput ==
    \E doc \in CompareDocs, k \in 0..MaxRawElements :
        \E es \in [1..k -> RawElements] :
            files \in Layouts(doc, raw(1, es))

VerifierInit ==
    /\ FullDocInput \/ PartialDocInput \/ CompareInput
    /\ adobe_data = raw(0, <<>>)
    /\ pdf_filename = "sample.pdf"
    /\ restructured = NotCalled
    /\ ret = NoCall
    /\ calls = <<>>
    /\ NoBatch
    /\ NoTextract

\* the file names handed to the verifier
FileNames ==
    {"/data/sample_restructured.json", "outputs/sample_restructured.json",
     "sample_restructured.json"}

\* verify_structure(data), data loaded from a file
VerifyLoadedStructure ==
    \E path \in DOMAIN files :
        /\ ret = NoCall
        /\ ret' = [op |-> "verify_structure", arg |-> path,
                   value |-> verify_structure(files[path].json)]
        /\ UNCHANGED <<adobe_data, pdf_filename, restructured, files, calls,
                       pc, batch_vars, textract_vars>>

\* verify_content_quality(data), data loaded from a file
VerifyContentQuality ==
    \E path \in DOMAIN files :
        /\ ret = NoCall
        /\ ret' = [op |-> "verify_content_quality", arg |-> path,
                   value |-> verify_content_quality(files[path].json)]
        /\ UNCHANGED <<adobe_data, pdf_filename, restructured, files, calls,
                       pc, batch_vars, textract_vars>>

\* compare_with_original(restructured_file, original_file)
CompareWithOriginal ==
    \E restructured_file \in FileNames :
        LET original_file == Replace(restructured_file, "_restructured", "_original")
        IN  /\ ret = NoCall
            /\ ret' = [op |-> "compare_with_original",
                       arg |-> <<restructured_file, original_file>>,
                       value |-> compare_with_original(files, restructured_file,
                                                       original_file)]
            /\ UNCHANGED <<adobe_data, pdf_filename, restructured, files, calls,
                           pc, batch_vars, textract_vars>>

\* generate_verification_report(filename, include_comparison)
GenerateVerificationReport ==
    \E filename \in FileNames, include_comparison \in BOOLEAN :
        /\ ret = NoCall
        /\ ret' = [op |-> "generate_verification_report",
                   arg |-> <<filename, include_comparison>>,
                   value |-> generate_verification_report(files, filename,
                                                          include_comparison)]
        /\ UNCHANGED <<adobe_data, pdf_filename, restructured, files, calls,
                       pc, batch_vars, textract_vars>>

\* python verify_extraction.py --file FILE [--compare] [--save-report]
Main ==
    \E file \in FileNames, compare \in BOOLEAN, save_report \in BOOLEAN :
        /\ ret = NoCall
        /\ ret' = [op |-> "main", arg |-> <<file, compare, save_report>>,
                   value |-> main(files, file, compare)]
        /\ files' = files_after_main(files, file, compare, save_report)
        /\ UNCHANGED <<adobe_data, pdf_filename, restructured, calls,
                       pc, batch_vars, textract_vars>>

VerifierNext ==
    \/ VerifyLoadedStructure
    \/ VerifyContentQuality
    \/ CompareWithOriginal
    \/ GenerateVerificationReport
    \/ Main

VerifierSpec == VerifierInit /\ [][VerifierNext]_vars

(***************************************************************************)
(* What a call leaves of the objects it was handed.  Python passes the     *)
(* element list and the document by reference, so a method could change    *)
(* them in place; each operator below is the argument as the method leaves *)
(* it, read off the method's assignments.                                  *)
(***************************************************************************)
\* the filter of lines 251-254 applied to all_elements itself
all_elements_cells_only(table_element, all_elements) ==
    table_cells(Get(table_element, "Path", ""), all_elements, 1)

\* _extract_table_data appends to and sorts cells, a list it creates at line 251,
\* and writes table_data and current_row, created at lines 248 and 275
all_elements_after_extract_table_data(table_element, all_elements) == all_elements

\* _extract_image_caption appends to potential_captions, created at line 199
all_elements_after_extract_image_caption(image_element, all_elements) == all_elements

\* _restructure_output reads adobe_data with get and writes the dict it creates
\* at line 319; the extractors it calls write the dicts of lines 171, 224, 295
adobe_data_after_restructure_output(data, filename) == data

\* verify_structure writes verification, created at line 35
data_after_verify_structure(data) == data

\* line 173 storing the coordinates it found back into the image
images_with_bounds_stored(images) ==
    [j \in 1..Len(images) |->
        [k \in DOMAIN images[j] \cup {"bounds"} |->
            IF k = "bounds" THEN bounds_or_bbox(images[j]) ELSE images[j][k]]]

data_with_bounds_stored(data) ==
    IF "pages" \in DOMAIN data
    THEN [data EXCEPT !.pages =
              [p \in 1..Len(data.pages) |->
                  IF "images" \in DOMAIN data.pages[p]
                  THEN [data.pages[p] EXCEPT !.images = images_with_bounds_stored(@)]
                  ELSE data.pages[p]]]
    ELSE data

\* verify_content_quality writes quality_check and the three statistics lists,
\* created at lines 112-118, 136, 149 and 166
data_after_verify_content_quality(data) == data

(***************************************************************************)
(* A session: one extractor and one verifier called several times on the   *)
(* same raw extraction result, in any order.  calls is the log of the      *)
(* calls made, each with what it returned; restructured is the Document of *)
(* the latest _restructure_output, which the verifier is given.            *)
(***************************************************************************)
MaxCalls == 3

SessionInputs ==
    {raw(1, <<TableRoot,
              [Path |-> "//Document/Table/TR[2]/TD/P", Page |-> 0, Text |-> "C",
               attributes |-> [RowIndex |-> 1, ColIndex |-> 0]],
              [Path |-> "//Document/Table/TR/TD/P", Page |-> 0, Text |-> "A",
               attributes |-> [RowIndex |-> 0, ColIndex |-> 0]]>>),
     raw(2, <<[Path |-> "//Document/P", Text |-> "Hello"],
              [Path |-> "//Document/Figure", Page |-> 0,
               attributes |-> [BBox |-> <<120, 500, 200, 520>>]],
              [Path |-> "//Document/Table[2]", Page |-> 1],
              [Path |-> "//Document/Table[2]/TR/TD/P", Page |-> 1, Text |-> "X"]>>),
     raw(1, <<BoundedFigure,
              [Path |-> "//Document/P", Page |-> 0, Text |-> "Figure 1: demo",
               Bounds |-> <<100, 450, 180, 460>>]>>),
     raw(1, <<[Path |-> "//Document/Figure[2]", Page |-> 1,
               Bounds |-> <<100, 500, 200, 520>>]>>),
     raw(0, <<>>)}

SessionInit ==
    /\ adobe_data \in SessionInputs
    /\ pdf_filename = "sample.pdf"
    /\ restructured = NotCalled
    /\ ret = NoCall
    /\ files = EmptyDict
    /\ calls = <<>>
    /\ NoBatch
    /\ NoTextract

\* _restructure_output(adobe_data, pdf_filename)
SessionRestructureOutput ==
    /\ Len(calls) < MaxCalls
    /\ restructured' = restructure_output(adobe_data, pdf_filename)
    /\ calls' = Append(calls, [op |-> "restructure_output", arg |-> 0,
                               value |-> restructured'])
    /\ adobe_data' = adobe_data_after_restructure_output(adobe_data, pdf_filename)
    /\ UNCHANGED <<pdf_filename, ret, files, pc, batch_vars, textract_vars>>

\* _extract_table_data(elements[i], elements)
SessionExtractTableData ==
    \E i \in 1..Len(adobe_data.elements) :
        /\ Len(calls) < MaxCalls
        /\ IsTable(adobe_data.elements[i])
        /\ calls' = Append(calls,
                           [op |-> "extract_table_data", arg |-> i,
                            value |-> extract_table_data(adobe_data.elements[i],
                                                         adobe_data.elements)])
        /\ adobe_data' =
               [adobe_data EXCEPT !.elements =
                    all_elements_after_extract_table_data(adobe_data.elements[i],
                                                          adobe_data.elements)]
        /\ UNCHANGED <<pdf_filename, restructured, ret, files,
                       pc, batch_vars, textract_vars>>

\* _extract_image_caption(elements[i], elements)
SessionExtractImageCaption ==
    \E i \in 1..Len(adobe_data.elements) :
        /\ Len(calls) < MaxCalls
        /\ IsFigure(adobe_data.elements[i])
        /\ calls' = Append(calls,
                           [op |-> "extract_image_caption", arg |-> i,
                            value |-> extract_image_caption(adobe_data.elements[i],
                                                            adobe_data.elements)])
        /\ adobe_data' =
               [adobe_data EXCEPT !.elements =
                    all_elements_after_extract_image_caption(adobe_data.elements[i],
                                                             adobe_data.elements)]
        /\ UNCHANGED <<pdf_filename, restructured, ret, files,
                       pc, batch_vars, textract_vars>>

\* verify_structure(data) on the Document of the latest _restructure_output
SessionVerifyStructure ==
    /\ Len(calls) < MaxCalls
    /\ restructured.exc = ""
    /\ calls' = Append(calls, [op |-> "verify_structure", arg |-> 0,
                               value |-> verify_structure(restructured.value)])
    /\ restructured' = Ok(data_after_verify_structure(restructured.value))
    /\ UNCHANGED <<adobe_data, pdf_filename, ret, files, pc, batch_vars, textract_vars>>

\* verify_content_quality(data) on the Document of the latest _restructure_output
SessionVerifyContentQuality ==
    /\ Len(calls) < MaxCalls
    /\ restructured.exc = ""
    /\ calls' = Append(calls,
                       [op |-> "verify_content_quality", arg |-> 0,
                        value |-> verify_content_quality(restructured.value)])
    /\ restructured' = Ok(data_after_verify_content_quality(restructured.value))
    /\ UNCHANGED <<adobe_data, pdf_filename, ret, files, pc, batch_vars, textract_vars>>

SessionNext ==
    \/ SessionRestructureOutput
    \/ SessionExtractTableData
    \/ SessionExtractImageCaption
    \/ SessionVerifyStructure
    \/ SessionVerifyContentQuality

SessionSpec == SessionInit /\ [][SessionNext]_vars

(***************************************************************************)
(* start_and_wait of aws_textract_poc.py (aws_textract_poc_fixed.py holds  *)
(* the same loop at lines 41-101).  The Textract service is the job: the   *)
(* status it reports and the pages of Blocks of its result, page i being   *)
(* handed out with the token of page i + 1 while there is one.  A call of  *)
(* the service may also raise ClientError.                                 *)
(***************************************************************************)
MaxResultPages == 2

\* the Blocks of one response
BlockLists == {<<>>, <<"b1">>, <<"b2", "b3">>}

FinalStatuses == {"SUCCEEDED", "FAILED", "PARTIAL_SUCCESS"}

Token(i) == "page" \o ToString(i)

\* the page a call asks for: the first without a token
PageAsked(pages, token) ==
    IF token = None THEN 1 ELSE CHOOSE i \in 1..Len(pages) : Token(i) = token[1]

\* response.get('NextToken'): the token, or None
NextTokenOf(response) ==
    IF "NextToken" \in DOMAIN response THEN Some(response.NextToken) ELSE None

\* the response of get_document_text_detection (lines 48-50, 62)
get_document_text_detection(j, token) ==
    IF j.status \in {"SUCCEEDED", "PARTIAL_SUCCESS"}
    THEN LET i == PageAsked(j.pages, token)
             page == [JobStatus |-> j.status, Blocks |-> j.pages[i]]
         IN  IF i < Len(j.pages)
             THEN [k \in DOMAIN page \cup {"NextToken"} |->
                      IF k = "NextToken" THEN Token(i + 1) ELSE page[k]]
             ELSE page
    ELSE IF j.status = "FAILED"
    THEN [JobStatus |-> "FAILED", StatusMessage |-> "INVALID_IMAGE_TYPE"]
    ELSE [JobStatus |-> j.status]

\* line 56 keeping the Blocks of the latest response only
replaced(blocks, response) == Get(response, "Blocks", <<>>)

\* lines 56 and 63: all_blocks.extend(result.get('Blocks', []))
extended(blocks, response) == blocks \o Get(response, "Blocks", <<>>)

\* the job is started and still running
TextractInit ==
    /\ \E k \in 1..MaxResultPages :
           \E pages \in [1..k -> BlockLists] :
               job = [status |-> "IN_PROGRESS", pages |-> pages]
    /\ pc = "start"
    /\ result = None
    /\ all_blocks = <<>>
    /\ next_token = None
    /\ adobe_data = raw(0, <<>>)
    /\ pdf_filename = "sample.pdf"
    /\ restructured = NotCalled
    /\ ret = NoCall
    /\ files = EmptyDict
    /\ calls = <<>>
    /\ pdf_files = <<>>
    /\ verify_results = FALSE
    /\ results = NotCalled

\* the service ends the job it was given
JobEnds ==
    /\ pc # "start"
    /\ job.status = "IN_PROGRESS"
    /\ \E status \in FinalStatuses : job' = [job EXCEPT !.status = status]
    /\ UNCHANGED <<document_vars, ret, files, pc, batch_vars,
                   result, all_blocks, next_token>>

\* lines 36-43: start_document_text_detection answered with a JobId
StartJob ==
    /\ pc = "start"
    /\ pc' = "poll"
    /\ UNCHANGED <<document_vars, ret, files, batch_vars, textract_vars>>

\* a call of the service raises ClientError, which start_and_wait raises again
\* (lines 80-82 and 86-88)
ClientError ==
    /\ pc \in {"start", "poll", "collect"}
    /\ pc' = "raised"
    /\ UNCHANGED <<document_vars, ret, files, batch_vars, textract_vars>>

\* lines 46-78: one poll of the loop and the branch its status selects
Poll ==
    /\ pc = "poll"
    /\ result' = get_document_text_detection(job, next_token)
    /\ LET status == result'.JobStatus
       IN  IF status = "SUCCEEDED"
           THEN /\ all_blocks' = extended(all_blocks, result')
                /\ next_token' = NextTokenOf(result')
                /\ pc' = IF next_token' # None THEN "collect" ELSE "returned"
           ELSE /\ pc' = IF status = "FAILED" THEN "exited" ELSE "sleep"
                /\ UNCHANGED <<all_blocks, next_token>>
    /\ UNCHANGED <<document_vars, ret, files, batch_vars, job>>

\* lines 75 and 78: time.sleep(poll_interval)
Sleep ==
    /\ pc = "sleep"
    /\ pc' = "poll"
    /\ UNCHANGED <<document_vars, ret, files, batch_vars, textract_vars>>

\* lines 60-64: one more page of the result
Collect ==
    /\ pc = "collect"
    /\ LET r == get_document_text_detection(job, next_token)
       IN  /\ all_blocks' = extended(all_blocks, r)
           /\ next_token' = NextTokenOf(r)
           /\ pc' = IF next_token' # None THEN "collect" ELSE "returned"
    /\ UNCHANGED <<document_vars, ret, files, batch_vars, job, result>>

TextractNext ==
    \/ JobEnds
    \/ StartJob
    \/ ClientError
    \/ Poll
    \/ Sleep
    \/ Collect

TextractSpec == TextractInit /\ [][TextractNext]_vars

\* the loop keeps running and the service ends the job
TextractFairSpec ==
    /\ TextractSpec
    /\ WF_vars(StartJob)
    /\ WF_vars(Poll)
    /\ WF_vars(Sleep)
    /\ WF_vars(Collect)
    /\ WF_vars(JobEnds)

(***************************************************************************)
(* Batch processing (scripts/batch_process.py) with the extractor's        *)
(* extract_pdf and verify_extraction.  A PDF of the input directory is its *)
(* name and the answer the Adobe service gives for it: an exception of the *)
(* SDK, or a result zip with or without the extraction JSON.               *)
(***************************************************************************)
input_dir == "inputs"

\* adobe_extract.py lines 342-447: the Document, or the exception that leaves
\* the method (line 401 raises SystemExit, which line 445 does not catch; an
\* SDK exception and the KeyError of line 426 pass through line 447)
extract_pdf(pdf) ==
    IF pdf.answer.kind = "error" THEN Raise("ServiceApiException")
    ELSE IF pdf.answer.json = None THEN Raise("SystemExit")
    ELSE restructure_output(pdf.answer.json[1], pdf.name)

\* adobe_extract.py lines 429-436: the two JSON files of a successful extraction
files_after_extract_pdf(fs, pdf) ==
    IF extract_pdf(pdf).exc # "" THEN fs
    ELSE ((output_dir \o "/" \o Stem(pdf.name) \o "_adobe_original.json")
              :> [st_mtime |-> "1730000001.0", json |-> pdf.answer.json[1]])
         @@ ((output_dir \o "/" \o Stem(pdf.name) \o "_adobe_restructured.json")
              :> [st_mtime |-> "1730000001.0", json |-> extract_pdf(pdf).value])
         @@ fs

\* adobe_extract.py lines 498-500
RECURSIVE extraction_table_issues(_, _, _)
extraction_table_issues(tables, j, page_num) ==
    IF j > Len(tables) THEN <<>>
    ELSE (IF Falsy(tables[j], "data") \/ Len(tables[j].data[1]) = 0
          THEN <<"Page " \o page_num \o ": Table " \o tables[j].table_id
                     \o " has no data">>
          ELSE <<>>)
         \o extraction_table_issues(tables, j + 1, page_num)

\* adobe_extract.py lines 503-505
RECURSIVE extraction_image_issues(_, _, _)
extraction_image_issues(images, j, page_num) ==
    IF j > Len(images) THEN <<>>
    ELSE (IF Falsy(images[j], "bounds") /\ Falsy(images[j], "bbox")
          THEN <<"Page " \o page_num \o ": Image " \o images[j].image_id
                     \o " missing bounds">>
          ELSE <<>>)
         \o extraction_image_issues(images, j + 1, page_num)

\* adobe_extract.py lines 486-505: the issues of the pages from page i on
RECURSIVE extraction_page_issues(_, _)
extraction_page_issues(pages, i) ==
    IF i > Len(pages) THEN <<>>
    ELSE LET page_num == ToString(Get(pages[i], "page_number", 0))
             tables == Get(pages[i], "tables", <<>>)
             images == Get(pages[i], "images", <<>>)
         IN  (IF Len(Get(pages[i], "text", "")) = 0 /\ Len(tables) = 0 /\ Len(images) = 0
              THEN <<"Page " \o page_num \o ": No content extracted">>
              ELSE <<>>)
             \o extraction_table_issues(tables, 1, page_num)
             \o extraction_image_issues(images, 1, page_num)
             \o extraction_page_issues(pages, i + 1)

\* adobe_extract.py lines 467-522 (a Document of _restructure_output raises
\* nothing inside the try of line 476)
verify_extraction(pdf_path, extraction_result) ==
    LET expected_pages ==
            Get(Get(extraction_result, "metadata", EmptyDict), "page_count", 0)
        pages == Get(extraction_result, "pages", <<>>)
        actual_pages == Len(pages)
        found == (IF expected_pages # actual_pages
                  THEN <<"Page count mismatch: expected " \o ToString(expected_pages)
                             \o ", got " \o ToString(actual_pages)>>
                  ELSE <<>>)
                 \o extraction_page_issues(pages, 1)
        counted == structure_summary(pages)
    IN  [pdf_file |-> pdf_path,
         verification_passed |-> Len(found) = 0,
         issues |-> found,
         summary |-> [total_pages |-> actual_pages,
                      total_tables |-> counted.total_tables,
                      total_images |-> counted.total_images,
                      total_text_length |-> counted.total_text_length]]

\* a quotient of two integers, kept as the pair of them; 0 when there is
\* nothing to divide by
Ratio(n, d) == IF d = 0 THEN <<0, 1>> ELSE <<n, d>>

\* batch_process.py lines 132-142: the totals over the successful entries from i on
RECURSIVE content_totals(_, _)
content_totals(successful, i) ==
    IF i > Len(successful)
    THEN [total_pages |-> 0, total_tables |-> 0, total_images |-> 0,
          total_text_length |-> 0, verification_passed |-> 0]
    ELSE LET rest == content_totals(successful, i + 1)
             counted == structure_summary(Get(successful[i].extraction, "pages", <<>>))
         IN  [total_pages |-> counted.total_pages + rest.total_pages,
              total_tables |-> counted.total_tables + rest.total_tables,
              total_images |-> counted.total_images + rest.total_images,
              total_text_length |-> counted.total_text_length + rest.total_text_length,
              verification_passed |->
                  (IF successful[i].verification_passed = Some(TRUE) THEN 1 ELSE 0)
                      + rest.verification_passed]

\* batch_process.py lines 111-156
generate_summary(entries) ==
    LET successful == SelectSeq(entries, LAMBDA r : r.status = "success")
        failed == SelectSeq(entries, LAMBDA r : r.status = "failed")
        totals == content_totals(successful, 1)
        n == Len(successful)
    IN  [total_files |-> Len(entries),
         successful |-> n,
         failed |-> Len(failed),
         success_rate |-> Ratio(n, Len(entries)),
         content_summary |->
             IF n = 0 THEN EmptyDict
             ELSE [total_pages |-> totals.total_pages,
                   total_tables |-> totals.total_tables,
                   total_images |-> totals.total_images,
                   total_text_length |-> totals.total_text_length,
                   average_pages_per_file |-> Ratio(totals.total_pages, n),
                   average_tables_per_file |-> Ratio(totals.total_tables, n),
                   average_images_per_file |-> Ratio(totals.total_images, n),
                   verification_passed |-> totals.verification_passed,
                   verification_rate |-> Ratio(totals.verification_passed, n)]]

\* extraction_result["verification"] = verification (line 64)
with_verification(extraction_result, verification) ==
    [k \in DOMAIN extraction_result \cup {"verification"} |->
        IF k = "verification" THEN verification ELSE extraction_result[k]]

\* lines 48-89, one iteration of the loop: the results dict after it, or the
\* exception that leaves process_all_pdfs (error holds str(e), here the
\* exception's name; verification_passed is Some(bool), or None unverified)
process_pdf(acc, pdf, verify) ==
    LET extraction == extract_pdf(pdf)
    IN  IF extraction.exc = "SystemExit" THEN Raise("SystemExit")
        ELSE IF extraction.exc # ""
        THEN Ok([acc EXCEPT !.results = Append(@, [filename |-> pdf.name,
                                                   status |-> "failed",
                                                   error |-> extraction.exc]),
                            !.failed_files = @ + 1])
        ELSE LET verification ==
                     verify_extraction(input_dir \o "/" \o pdf.name, extraction.value)
                 extraction_result ==
                     IF verify THEN with_verification(extraction.value, verification)
                     ELSE extraction.value
             IN  Ok([acc EXCEPT
                        !.results =
                            Append(@, [filename |-> pdf.name,
                                       status |-> "success",
                                       extraction |-> extraction_result,
                                       verification_passed |->
                                           IF verify
                                           THEN Some(verification.verification_passed)
                                           ELSE None]),
                        !.processed_files = @ + 1])

\* lines 59-61: the verification file of a verified extraction
files_after_process_pdf(fs, pdf, verify) ==
    LET extraction == extract_pdf(pdf)
        written == files_after_extract_pdf(fs, pdf)
    IN  IF extraction.exc = "" /\ verify
        THEN ((output_dir \o "/" \o Stem(pdf.name) \o "_verification.json")
                  :> [st_mtime |-> "1730000002.0",
                      json |-> verify_extraction(input_dir \o "/" \o pdf.name,
                                                 extraction.value)])
             @@ written
        ELSE written

\* lines 92-97: the dict json.dump writes to batch_processing_results.json
saved_results(acc) == [acc EXCEPT !.summary = generate_summary(acc.results)]

\* lines 102-109: the dict process_all_pdfs returns
returned_results(acc) ==
    [saved_results(acc) EXCEPT !.status = IF acc.failed_files = 0 THEN "completed"
                                          ELSE "completed_with_errors"]

batch_results_file == output_dir \o "/batch_processing_results.json"

MaxPdfs == 2

\* the answers of the Adobe service: a page of text, a page without content, an
\* element of a page the document does not have, a zip without JSON, an error
PdfAnswers ==
    {[kind |-> "zip", json |-> <<raw(1, <<[Path |-> "//Document/P", Text |-> "Hello"]>>)>>],
     [kind |-> "zip", json |-> <<raw(1, <<>>)>>],
     [kind |-> "zip", json |-> <<raw(1, <<[Path |-> "//Document/P", Page |-> 1,
                                          Text |-> "Next"]>>)>>],
     [kind |-> "zip", json |-> None],
     [kind |-> "error"]}

\* the input directory as self.input_dir.glob("*.pdf") lists it (line 30)
BatchInit ==
    /\ \E k \in 0..MaxPdfs :
           \E answers \in [1..k -> PdfAnswers] :
               pdf_files = [i \in 1..k |->
                               [name |-> "doc" \o ToString(i) \o ".pdf",
                                answer |-> answers[i]]]
    /\ verify_results \in BOOLEAN
    /\ results = NotCalled
    /\ pc = "start"
    /\ adobe_data = raw(0, <<>>)
    /\ pdf_filename = "sample.pdf"
    /\ restructured = NotCalled
    /\ ret = NoCall
    /\ files = EmptyDict
    /\ calls = <<>>
    /\ NoTextract

\* lines 29-33: no PDF in the input directory
NoFiles ==
    /\ pc = "start"
    /\ Len(pdf_files) = 0
    /\ pc' = "returned"
    /\ ret' = [op |-> "process_all_pdfs",
               value |-> [status |-> "no_files", processed |-> 0]]
    /\ UNCHANGED <<document_vars, files, batch_vars, textract_vars>>

\* lines 35-44
StartBatch ==
    /\ pc = "start"
    /\ Len(pdf_files) > 0
    /\ results' = [status |-> "processing",
                   total_files |-> Len(pdf_files),
                   processed_files |-> 0,
                   failed_files |-> 0,
                   results |-> <<>>,
                   summary |-> EmptyDict]
    /\ pc' = "loop"
    /\ UNCHANGED <<document_vars, ret, files, pdf_files, verify_results, textract_vars>>

\* lines 47-89: the iteration for the next PDF of the list
ProcessPdf ==
    /\ pc = "loop"
    /\ Len(results.results) < Len(pdf_files)
    /\ LET pdf_file == pdf_files[Len(results.results) + 1]
           after == process_pdf(results, pdf_file, verify_results)
       IN  /\ files' = files_after_process_pdf(files, pdf_file, verify_results)
           /\ IF after.exc # ""
              THEN pc' = "exited" /\ UNCHANGED results
              ELSE results' = after.value /\ UNCHANGED pc
    /\ UNCHANGED <<document_vars, ret, pdf_files, verify_results, textract_vars>>

\* lines 91-109: the summary, the saved file, the final status and the return
FinishBatch ==
    /\ pc = "loop"
    /\ Len(results.results) = Len(pdf_files)
    /\ files' = (batch_results_file :> [st_mtime |-> "1730000003.0",
                                        json |-> saved_results(results)]) @@ files
    /\ results' = returned_results(results)
    /\ ret' = [op |-> "process_all_pdfs", value |-> results']
    /\ pc' = "returned"
    /\ UNCHANGED <<document_vars, pdf_files, verify_results, textract_vars>>

BatchNext ==
    \/ NoFiles
    \/ StartBatch
    \/ ProcessPdf
    \/ FinishBatch

BatchSpec == BatchInit /\ [][BatchNext]_vars

(***************************************************************************)
(* test_output_format_compliance (scripts/test_improvements.py): TRUE when *)
(* the test passes on the document `data`.                                 *)
(***************************************************************************)
format_compliance(data) ==
    /\ \A key \in {"document_id", "metadata", "pages"} : key \in DOMAIN data
    /\ LET metadata == Get(data, "metadata", EmptyDict)
           pages == Get(data, "pages", <<>>)
           expected_pages == Get(metadata, "page_count", 0)
       IN  /\ \A key \in {"source", "page_count"} : key \in DOMAIN metadata
           /\ Len(pages) = expected_pages
           /\ \A i \in 1..Len(pages) :
                  /\ \A key \in {"page_number", "text", "tables", "images"} :
                         key \in DOMAIN pages[i]
                  /\ pages[i].page_number = i

(***************************************************************************)
(* Vocabulary of the properties.                                           *)
(***************************************************************************)
elements == adobe_data.elements

page_count == adobe_data.extended_metadata.page_count

\* _restructure_output was called and returned a Document
Assembled == restructured.exc = ""

document == restructured.value

PageOf(e) == IF "Page" \in DOMAIN e THEN e.Page ELSE 0

\* the positions, in input order, of the elements of page p that satisfy Kind
OnPage(p, Kind(_)) == {j \in 1..Len(elements) : Kind(elements[j]) /\ PageOf(elements[j]) = p}

\* the cells of the element at position i: the elements under its path that
\* carry the table-data-cell marker
CellsOf(i) ==
    {j \in 1..Len(elements) :
        /\ StartsWith(elements[j].Path, elements[i].Path)
        /\ Contains(elements[j].Path, "TD")}

\* a table root: under the table prefix, with no row or cell segment
IsTableRoot(e) ==
    /\ StartsWith(e.Path, "//Document/Table")
    /\ ~Contains(e.Path, "/TR")
    /\ ~Contains(e.Path, "/TD")

(***************************************************************************)
(* C1: for every page count P >= 0 and every element list, assemble        *)
(* returns a Document whose pages sequence has length exactly P.           *)
(***************************************************************************)
C1_PagesLengthIsPageCount ==
    (restructured # NotCalled /\ page_count >= 0)
        => (Assembled /\ Len(document.pages) = page_count)

(***************************************************************************)
(* C3: assemble creates exactly one Table per table-root element: on every *)
(* page the number of tables is the number of table-root elements of that  *)
(* page, and rows, cells and cell paragraphs produce no Table of their own.*)
(***************************************************************************)
C3_OneTablePerTableRoot ==
    Assembled =>
        \A n \in 1..Len(document.pages) :
            Len(document.pages[n].tables) = Cardinality(OnPage(n - 1, IsTableRoot))

(***************************************************************************)
(* C10: every Document produced by assemble passes the format-compliance   *)
(* check of the test suite.                                                *)
(***************************************************************************)
C10_DocumentPassesFormatCompliance ==
    Assembled => format_compliance(document)

(***************************************************************************)
(* C2 (as stated): for every element list and page count for which         *)
(* assemble returns a Document, verify_structure applied to that Document  *)
(* reports valid = true with an empty issues list.                         *)
(***************************************************************************)
C2_AssembledDocumentIsValid ==
    ret.op = "verify_structure"
        => (ret.value.structure_valid /\ ret.value.issues = <<>>)

\* every element under the table prefix has at least one cell under its path
EveryTableHasCells ==
    \A i \in 1..Len(elements) : IsTable(elements[i]) => CellsOf(i) # {}

(***************************************************************************)
(* C2 (amended): for every element list and page count for which assemble  *)
(* returns a Document, verify_structure reports valid = true with an empty *)
(* issues list exactly when the page count is not negative and every       *)
(* element under the table prefix has at least one cell element under its  *)
(* path; otherwise it reports valid = false with a non-empty issues list.  *)
(***************************************************************************)
C2_AssembledDocumentValidIffTablesHaveCells ==
    ret.op = "verify_structure"
        => /\ ret.value.structure_valid <=> (page_count >= 0 /\ EveryTableHasCells)
           /\ ret.value.structure_valid <=> (ret.value.issues = <<>>)

C2_Witness ==
    /\ ret.op = "verify_structure"
    /\ ret.value.structure_valid
    /\ \E n \in 1..Len(document.pages) :
           /\ Len(document.pages[n].tables) > 0
           /\ Len(document.pages[n].images) > 0

(***************************************************************************)
(* build_grid (_extract_table_data): the latest call, its table element    *)
(* and the cells of that table.                                            *)
(***************************************************************************)
GridBuilt == ret.op = "extract_table_data"

grid == ret.value

Cells == CellsOf(ret.arg)

MaxOf(S) == CHOOSE m \in S : \A x \in S : x <= m

MinOf(S) == CHOOSE m \in S : \A x \in S : m <= x

RowValues == {RowIndex(elements[j]) : j \in Cells}

Width == MaxOf({ColIndex(elements[j]) : j \in Cells}) + 1

\* the 1-based rank of row value r among the row values
Rank(r) == Cardinality({x \in RowValues : x <= r})

\* the texts of the positions J in ascending order, one space between two
RECURSIVE JoinTexts(_)
JoinTexts(J) ==
    IF J = {} THEN ""
    ELSE LET j == MinOf(J)
         IN  IF J = {j} THEN elements[j].Text
             ELSE elements[j].Text \o " " \o JoinTexts(J \ {j})

\* the text of the cell at position j: its paragraphs' texts, joined and trimmed
CellText(j) ==
    Strip(JoinTexts({k \in 1..Len(elements) :
                        /\ StartsWith(elements[k].Path, elements[j].Path)
                        /\ EndsWith(elements[k].Path, "/P")
                        /\ "Text" \in DOMAIN elements[k]}))

ScenarioB ==
    <<TableRoot,
      [Path |-> "//Document/Table/TR/TD/P", Page |-> 0, Text |-> "A",
       attributes |-> [RowIndex |-> 0, ColIndex |-> 0]],
      [Path |-> "//Document/Table/TR/TD[2]/P", Page |-> 0, Text |-> "B",
       attributes |-> [RowIndex |-> 0, ColIndex |-> 1]],
      [Path |-> "//Document/Table/TR[2]/TD/P", Page |-> 0, Text |-> "C",
       attributes |-> [RowIndex |-> 1, ColIndex |-> 0]]>>

(***************************************************************************)
(* C4: the grid returned by build_grid has exactly as many rows as there   *)
(* are distinct RowIndex values among the table's cell elements, and every *)
(* row has exactly max(ColIndex over the table's cells) + 1 entries, an    *)
(* absent RowIndex or ColIndex counting as 0.                              *)
(***************************************************************************)
C4_GridShape ==
    GridBuilt
        => /\ Len(grid) = Cardinality(RowValues)
           /\ \A r \in 1..Len(grid) : Len(grid[r]) = Width

C4_Witness ==
    /\ GridBuilt
    /\ Len(grid) = 2
    /\ Width = 3
    /\ \E j \in Cells : "attributes" \notin DOMAIN elements[j]

(***************************************************************************)
(* C5: build_grid places each cell's text (the trimmed concatenation of    *)
(* the texts of the paragraph elements under the cell's path) at column    *)
(* ColIndex of the row for the cell's RowIndex, rows in ascending RowIndex *)
(* order, every position without a cell holding the empty string; of       *)
(* several cells with the same indices the last of the input is the one    *)
(* that stays.  Cells (0,0)='A', (0,1)='B', (1,0)='C' give                 *)
(* [['A','B'],['C','']].                                                   *)
(***************************************************************************)
C5_GridContent ==
    GridBuilt
        => /\ Len(grid) = Cardinality(RowValues)
           /\ \A r \in RowValues :
                  /\ Len(grid[Rank(r)]) = Width
                  /\ \A c \in 0..(Width - 1) :
                         LET at == {j \in Cells : /\ RowIndex(elements[j]) = r
                                                  /\ ColIndex(elements[j]) = c}
                         IN  grid[Rank(r)][c + 1] =
                                 IF at = {} THEN "" ELSE CellText(MaxOf(at))
           /\ (elements = ScenarioB /\ ret.arg = 1)
                  => grid = <<<<"A", "B">>, <<"C", "">>>>

C5_Witness ==
    /\ GridBuilt
    /\ elements = ScenarioB
    /\ ret.arg = 1
    /\ grid[2][2] = ""

(***************************************************************************)
(* find_caption (_extract_image_caption): the latest call and its image.   *)
(***************************************************************************)
CaptionSought == ret.op = "extract_image_caption"

caption == ret.value

image == elements[ret.arg]

HasBounds(e) == "Bounds" \in DOMAIN e /\ Len(e.Bounds) >= 4

\* a paragraph element with at least 4 bound coordinates
BoundedParagraphs ==
    {j \in 1..Len(elements) :
        /\ StartsWith(elements[j].Path, "//Document/P")
        /\ "Text" \in DOMAIN elements[j]
        /\ HasBounds(elements[j])}

\* image_y0 - text_y0
Gap(j) == image.Bounds[2] - elements[j].Bounds[2]

\* |text_x0 - image_x0|
Offset(j) == Abs(elements[j].Bounds[1] - image.Bounds[1])

\* strictly below the image and less than 50 away horizontally
Candidates == {j \in BoundedParagraphs : Gap(j) > 0 /\ Offset(j) < 50}

SmallestGap == MinOf({Gap(j) : j \in Candidates})

\* inside the horizontal and the vertical window
InWindows == {j \in BoundedParagraphs : Offset(j) < 50 /\ Gap(j) > 0 /\ Gap(j) < 100}

ScenarioC ==
    <<BoundedFigure,
      [Path |-> "//Document/P", Page |-> 0, Text |-> "Figure 1: demo",
       Bounds |-> <<100, 450, 180, 460>>]>>

ScenarioD ==
    <<BoundedFigure,
      [Path |-> "//Document/P[2]", Page |-> 0, Text |-> "far",
       Bounds |-> <<100, 380, 180, 390>>]>>

(***************************************************************************)
(* C6: for an image with at least 4 bound coordinates, find_caption        *)
(* returns the text of the candidate with the smallest vertical gap        *)
(* whenever that gap is under 100, the first such candidate in input order *)
(* when several share it; image [100,500,200,520] with paragraph           *)
(* [100,450,180,460] gets that paragraph's text.                           *)
(***************************************************************************)
C6_ClosestCandidateIsCaption ==
    CaptionSought
        => /\ (HasBounds(image) /\ Candidates # {} /\ SmallestGap < 100)
                  => caption =
                         Some(elements[MinOf({j \in Candidates :
                                                 Gap(j) = SmallestGap})].Text)
           /\ elements = ScenarioC => caption = Some("Figure 1: demo")

C6_Witness ==
    /\ CaptionSought
    /\ HasBounds(image)
    /\ Candidates # {}
    /\ SmallestGap < 100
    /\ \E j, k \in Candidates :
           /\ Gap(j) = SmallestGap
           /\ Gap(k) = SmallestGap
           /\ elements[j].Text # elements[k].Text
    /\ \E j \in Candidates : Gap(j) > SmallestGap
    /\ caption # None

(***************************************************************************)
(* C7: find_caption never selects a paragraph outside the windows: a       *)
(* caption it returns is the text of a paragraph less than 50 away         *)
(* horizontally and with a vertical gap that is positive and under 100;    *)
(* when no paragraph lies inside both windows (the only one has gap 120),  *)
(* or the image has fewer than 4 bound coordinates, there is no caption.   *)
(***************************************************************************)
C7_CaptionInsideWindows ==
    CaptionSought
        => /\ caption # None
                  => /\ HasBounds(image)
                     /\ \E j \in InWindows : caption = Some(elements[j].Text)
           /\ ~HasBounds(image) => caption = None
           /\ (HasBounds(image) /\ InWindows = {}) => caption = None
           /\ elements = ScenarioD => caption = None

C7_Witness ==
    /\ CaptionSought
    /\ HasBounds(image)
    /\ caption = None
    /\ \E j \in BoundedParagraphs : Offset(j) = 50 /\ Gap(j) > 0 /\ Gap(j) < 100
    /\ \E j \in BoundedParagraphs : Offset(j) < 50 /\ Gap(j) = 100

(***************************************************************************)
(* Page text.                                                              *)
(***************************************************************************)
\* C8's paragraph: under the paragraph prefix and carrying non-empty text
IsNonEmptyParagraph(e) ==
    /\ StartsWith(e.Path, "//Document/P")
    /\ "Text" \in DOMAIN e
    /\ e.Text # ""

\* under the paragraph prefix and carrying a text field, empty or not
HasTextField(e) ==
    /\ StartsWith(e.Path, "//Document/P")
    /\ "Text" \in DOMAIN e

(***************************************************************************)
(* C8 (as stated): for every page p in [0, page_count), the page's text is *)
(* the texts of the paragraph-classified elements of page p (paragraph     *)
(* prefix and non-empty text; no page field means page 0) in input order,  *)
(* joined by exactly one space and trimmed; other elements contribute      *)
(* nothing.                                                                *)
(***************************************************************************)
C8_PageTextJoinsNonEmptyParagraphs ==
    Assembled =>
        \A n \in 1..Len(document.pages) :
            document.pages[n].text =
                Strip(JoinTexts(OnPage(n - 1, IsNonEmptyParagraph)))

(***************************************************************************)
(* C8 (amended): for every page p in [0, page_count), the page's text is   *)
(* the texts of the elements of page p that are under the paragraph prefix *)
(* and carry a text field, empty or not (no page field means page 0), in   *)
(* input order, joined by exactly one space and trimmed; other elements    *)
(* contribute nothing.  'Hello' and 'World' on page 0 give 'Hello World'.  *)
(***************************************************************************)
C8_PageTextJoinsTextFields ==
    Assembled =>
        /\ \A n \in 1..Len(document.pages) :
               document.pages[n].text = Strip(JoinTexts(OnPage(n - 1, HasTextField)))
        /\ (page_count = 1 /\
            elements = <<[Path |-> "//Document/P", Page |-> 0, Text |-> "Hello"],
                         [Path |-> "//Document/P", Page |-> 0, Text |-> "World"]>>)
               => document.pages[1].text = "Hello World"

C8_Witness ==
    /\ Assembled
    /\ page_count = 2
    /\ \E j \in OnPage(0, HasTextField) : elements[j].Text = ""
    /\ \E j \in OnPage(0, HasTextField) : elements[j].Text = "Hello"
    /\ Len(document.pages[2].text) > 0

(***************************************************************************)
(* C9: within one assemble call, each page's images list holds one Image   *)
(* per figure element of that page in input order, the k-th having         *)
(* image_id 'i<k>' (k from 1), and the k-th table of a page has table_id   *)
(* 't<k>': ids are unique within a page and one page's counters never      *)
(* affect another page.                                                    *)
(***************************************************************************)
\* the k-th smallest member of J
RECURSIVE Kth(_, _)
Kth(J, k) == IF k = 1 THEN MinOf(J) ELSE Kth(J \ {MinOf(J)}, k - 1)

C9_SequentialIdsPerPage ==
    Assembled =>
        \A n \in 1..Len(document.pages) :
            LET images == document.pages[n].images
                tables == document.pages[n].tables
                figures == OnPage(n - 1, IsFigure)
            IN  /\ Len(images) = Cardinality(figures)
                /\ \A k \in 1..Len(images) :
                       /\ images[k].image_id = "i" \o ToString(k)
                       /\ images[k].bounds = Get(elements[Kth(figures, k)], "Bounds", <<>>)
                /\ \A k \in 1..Len(tables) : tables[k].table_id = "t" \o ToString(k)
                /\ \A k, l \in 1..Len(images) :
                       images[k].image_id = images[l].image_id => k = l
                /\ \A k, l \in 1..Len(tables) :
                       tables[k].table_id = tables[l].table_id => k = l

C9_Witness ==
    /\ Assembled
    /\ Len(document.pages) = 2
    /\ Len(document.pages[1].images) = 2
    /\ Len(document.pages[2].images) = 1
    /\ document.pages[1].images[1].bounds # document.pages[2].images[1].bounds

(***************************************************************************)
(* C11: assemble fails with an InputError, returning no Document, whenever *)
(* page_count is negative; it never fails merely because some page has no  *)
(* elements.                                                               *)
(***************************************************************************)
C11_NegativePageCountIsInputError ==
    restructured # NotCalled
        => /\ page_count < 0 => restructured.exc = "InputError"
           /\ (page_count >= 0 /\ \A j \in 1..Len(elements) :
                                     PageOf(elements[j]) \in Range(page_count))
                  => Assembled

(***************************************************************************)
(* verify_structure on a loaded file: the latest call, the document it was *)
(* given and the checks that document violates.                            *)
(***************************************************************************)
StructureVerified == ret.op = "verify_structure"

verified == files[ret.arg].json

issues == ret.value.issues

IssueSet == {issues[i] : i \in 1..Len(issues)}

MissingTopLevel == TopLevelKeys \ DOMAIN verified

MissingMetadata == {"source", "page_count"} \ DOMAIN Get(verified, "metadata", EmptyDict)

VerifiedPages == Get(verified, "pages", <<>>)

ExpectedPages == Get(Get(verified, "metadata", EmptyDict), "page_count", 0)

\* page i lacks field k
MissingPageFields ==
    {<<i, k>> \in (1..Len(VerifiedPages)) \X {"page_number", "text", "tables", "images"} :
        k \notin DOMAIN VerifiedPages[i]}

\* page i does not carry the number i
WrongPageNumbers ==
    {i \in 1..Len(VerifiedPages) :
        \/ "page_number" \notin DOMAIN VerifiedPages[i]
        \/ VerifiedPages[i].page_number # i}

\* the entries of list `kind` of page i, as <<i, j, field>>, whose `field` is
\* absent or empty
EmptyFields(kind, fields) ==
    UNION {{<<i, j, k>> : j \in 1..Len(Get(VerifiedPages[i], kind, <<>>)), k \in fields} :
              i \in 1..Len(VerifiedPages)}

EmptyEntryFields(kind, fields) ==
    {t \in EmptyFields(kind, fields) :
        \/ t[3] \notin DOMAIN VerifiedPages[t[1]][kind][t[2]]
        \/ Len(VerifiedPages[t[1]][kind][t[2]][t[3]]) = 0}

\* the number of checks below the top level that the document violates
ViolatedChecks ==
    Cardinality(MissingMetadata)
        + (IF Len(VerifiedPages) # ExpectedPages THEN 1 ELSE 0)
        + Cardinality(MissingPageFields)
        + Cardinality(WrongPageNumbers)
        + Cardinality(EmptyEntryFields("tables", {"table_id", "data"}))
        + Cardinality(EmptyEntryFields("images", {"image_id", "path"}))

(***************************************************************************)
(* C12 (as stated): verify_structure accumulates every failure without     *)
(* short-circuiting: for a document that violates several checks at once   *)
(* (it lacks a required top-level field and also lacks a required metadata *)
(* field or has a page with a wrong page_number) the issues list holds one *)
(* issue for each violated check.                                          *)
(***************************************************************************)
C12_EveryViolatedCheckHasAnIssue ==
    StructureVerified
        => /\ \A k \in MissingTopLevel : ("Missing required key: " \o k) \in IssueSet
           /\ "metadata" \in DOMAIN verified
                  => \A k \in MissingMetadata :
                         ("Missing metadata key: " \o k) \in IssueSet
           /\ Len(issues) >= Cardinality(MissingTopLevel) + Cardinality(WrongPageNumbers)

(***************************************************************************)
(* C12 (amended): verify_structure accumulates every failure of the checks *)
(* it runs: when a required top-level field is missing, the issues list    *)
(* holds one issue for each missing top-level field and nothing else (the  *)
(* other checks are not run); when all three are present, it holds one     *)
(* issue for each violated check (metadata fields, page count, page        *)
(* fields, page numbers, table and image fields).                          *)
(***************************************************************************)
C12_IssuesOfTheChecksRun ==
    StructureVerified
        => IF MissingTopLevel # {}
           THEN /\ IssueSet = {"Missing required key: " \o k : k \in MissingTopLevel}
                /\ Len(issues) = Cardinality(MissingTopLevel)
           ELSE /\ Len(issues) = ViolatedChecks
                /\ \A k \in MissingMetadata :
                       ("Missing metadata key: " \o k) \in IssueSet
                /\ \A i \in WrongPageNumbers :
                       \E m \in IssueSet :
                           StartsWith(m, "Page " \o ToString(i)
                                              \o ": Page number mismatch: expected "
                                              \o ToString(i) \o ", got ")

C12_Witness ==
    /\ StructureVerified
    /\ MissingTopLevel = {}
    /\ MissingMetadata # {}
    /\ WrongPageNumbers # {}
    /\ Len(VerifiedPages) # ExpectedPages
    /\ EmptyEntryFields("tables", {"table_id", "data"}) # {}
    /\ EmptyEntryFields("images", {"image_id", "path"}) # {}
    /\ Len(issues) = ViolatedChecks

(***************************************************************************)
(* C13: for any document that has all three top-level fields and whose     *)
(* pages sequence has length n different from metadata.page_count m,       *)
(* verify_structure's issues contain 'Page count mismatch: expected m,     *)
(* got n' and valid is false; m = 2 and n = 1 give 'Page count mismatch:   *)
(* expected 2, got 1'.                                                     *)
(***************************************************************************)
C13_PageCountMismatchIsReported ==
    (/\ StructureVerified
     /\ MissingTopLevel = {}
     /\ "page_count" \in DOMAIN verified.metadata
     /\ Len(verified.pages) # verified.metadata.page_count)
        => /\ ("Page count mismatch: expected "
                   \o ToString(verified.metadata.page_count) \o ", got "
                   \o ToString(Len(verified.pages))) \in IssueSet
           /\ ~ret.value.structure_valid
           /\ (verified.metadata.page_count = 2 /\ Len(verified.pages) = 1)
                  => "Page count mismatch: expected 2, got 1" \in IssueSet

C13_Witness ==
    /\ StructureVerified
    /\ MissingTopLevel = {}
    /\ "page_count" \in DOMAIN verified.metadata
    /\ verified.metadata.page_count = 2
    /\ Len(verified.pages) = 1
    /\ issues = <<"Page count mismatch: expected 2, got 1">>
    /\ ~ret.value.structure_valid

(***************************************************************************)
(* C14: in every result of verify_structure, valid is false if and only if *)
(* the issues list is non-empty, on every return path and for every input  *)
(* document.                                                               *)
(***************************************************************************)
C14_InvalidIffIssues ==
    StructureVerified => (~ret.value.structure_valid <=> Len(issues) > 0)

\* the final return path, with one issue below the top level
C14_Witness ==
    /\ StructureVerified
    /\ MissingTopLevel = {}
    /\ MissingMetadata # {}
    /\ Len(VerifiedPages) = ExpectedPages
    /\ WrongPageNumbers = {}
    /\ Len(issues) = 1
    /\ ~ret.value.structure_valid

(***************************************************************************)
(* verify_quality (verify_content_quality) on a loaded file: the latest    *)
(* call, its warnings and the tables and images of the document.           *)
(***************************************************************************)
QualityVerified == ret.op = "verify_content_quality"

warnings == ret.value.warnings

WarningSet == {warnings[i] : i \in 1..Len(warnings)}

quality == ret.value.content_quality

\* the entries of list `kind` of the verified document
Entries(kind) ==
    UNION {{VerifiedPages[i][kind][j] : j \in 1..Len(Get(VerifiedPages[i], kind, <<>>))} :
              i \in 1..Len(VerifiedPages)}

\* data is absent or empty, or its rows hold only empty strings
HasNoData(table) ==
    \/ "data" \notin DOMAIN table
    \/ \A r \in 1..Len(table.data) : \A c \in 1..Len(table.data[r]) :
           table.data[r][c] = ""

\* the number of coordinates of field k of an image, 0 when it is absent
Coordinates(img, k) == Len(Get(img, k, <<>>))

MissesBothBounds(img) == Coordinates(img, "bounds") < 4 /\ Coordinates(img, "bbox") < 4

\* the pages with no text, no tables and no images, by their 1-based number
EmptyPages ==
    {i \in 1..Len(VerifiedPages) :
        /\ Get(VerifiedPages[i], "text", "") = ""
        /\ Get(VerifiedPages[i], "tables", <<>>) = <<>>
        /\ Get(VerifiedPages[i], "images", <<>>) = <<>>}

(***************************************************************************)
(* C15: verify_quality records the table-has-no-data warning, and reports  *)
(* quality 'warning', whenever the document contains a table whose data is *)
(* absent or empty or whose rows hold only empty strings.                  *)
(***************************************************************************)
C15_TableWithoutDataIsWarned ==
    (QualityVerified /\ \E table \in Entries("tables") : HasNoData(table))
        => /\ "Some tables have no data" \in WarningSet
           /\ quality = "warning"

(***************************************************************************)
(* C16: verify_quality records the image-missing-bounds warning if and     *)
(* only if some image of the document has fewer than 4 coordinates in both *)
(* its bounds and its bbox; an image for which either of the two holds at  *)
(* least 4 coordinates is never the cause of that warning.                 *)
(***************************************************************************)
C16_MissingBoundsWarnedIffBothShort ==
    QualityVerified
        => ("Some images missing bounds" \in WarningSet
                <=> \E img \in Entries("images") : MissesBothBounds(img))

(***************************************************************************)
(* C17: verify_quality reports quality 'warning' exactly when at least one *)
(* warning was recorded (an empty page, a table without data, an image     *)
(* missing bounds) and 'good' otherwise; any page with no text, no tables  *)
(* and no images makes the quality 'warning' and is listed by its 1-based  *)
(* number.                                                                 *)
(***************************************************************************)
C17_WarningIffWarningsRecorded ==
    QualityVerified
        => /\ quality = (IF Len(warnings) > 0 THEN "warning" ELSE "good")
           /\ WarningSet \subseteq
                  {"Empty pages detected: "
                       \o PyList([k \in 1..Cardinality(EmptyPages) |-> Kth(EmptyPages, k)]),
                   "Some tables have no data",
                   "Some images missing bounds"}
           /\ EmptyPages # {}
                  => /\ quality = "warning"
                     /\ warnings[1] =
                            "Empty pages detected: "
                                \o PyList([k \in 1..Cardinality(EmptyPages) |->
                                              Kth(EmptyPages, k)])
           /\ EmptyPages = {}
                  => \A i \in 1..Len(warnings) :
                         ~StartsWith(warnings[i], "Empty pages detected")

C17_Witness ==
    /\ QualityVerified
    /\ Len(VerifiedPages) = 2
    /\ EmptyPages = {1, 2}
    /\ warnings = <<"Empty pages detected: [1, 2]">>
    /\ quality = "warning"

(***************************************************************************)
(* C18 (as stated): the content-quality pass flags images without a        *)
(* caption: for a document containing an image whose caption is absent or  *)
(* null, verify_quality records a warning and reports quality 'warning'.   *)
(***************************************************************************)
HasNoCaption(img) == "caption" \notin DOMAIN img \/ img.caption = None

C18_MissingCaptionIsWarned ==
    (QualityVerified /\ \E img \in Entries("images") : HasNoCaption(img))
        => /\ Len(warnings) > 0
           /\ quality = "warning"

\* the images of the verified document, as <<page, position>>
ImagePositions ==
    UNION {{<<i, j>> : j \in 1..Len(Get(VerifiedPages[i], "images", <<>>))} :
              i \in 1..Len(VerifiedPages)}

(***************************************************************************)
(* C18 (amended): the content-quality pass counts the images that have a   *)
(* caption and does not flag the others: content_summary                   *)
(* .images_with_captions is the number of images whose caption is a        *)
(* non-empty string, every warning is about empty pages, tables without    *)
(* data or images missing bounds, and a document that has no empty page,   *)
(* no table and at least 4 bounds coordinates on every image is reported   *)
(* 'good' with no warning, whether its images have captions or not.        *)
(***************************************************************************)
C18_CaptionsAreCountedNotWarned ==
    QualityVerified
        => /\ ret.value.content_summary.images_with_captions =
                  Cardinality({p \in ImagePositions :
                      LET img == VerifiedPages[p[1]].images[p[2]]
                      IN  ~HasNoCaption(img) /\ img.caption # Some("")})
           /\ \A i \in 1..Len(warnings) :
                  \/ StartsWith(warnings[i], "Empty pages detected: ")
                  \/ warnings[i] = "Some tables have no data"
                  \/ warnings[i] = "Some images missing bounds"
           /\ (/\ EmptyPages = {}
               /\ Entries("tables") = {}
               /\ \A img \in Entries("images") : Coordinates(img, "bounds") >= 4)
                  => (warnings = <<>> /\ quality = "good")

C18_Witness ==
    /\ QualityVerified
    /\ \E img \in Entries("images") : HasNoCaption(img)
    /\ ret.value.content_summary.total_images = 1
    /\ ret.value.content_summary.images_with_captions = 0
    /\ warnings = <<>>
    /\ quality = "good"

(***************************************************************************)
(* compare (compare_with_original): the latest call that loaded both       *)
(* files, the raw tallies and the counts of the document.                  *)
(***************************************************************************)
Compared == ret.op = "compare_with_original" /\ "differences" \in DOMAIN ret.value

ComparedDocument == files[file_path(ret.arg[1])].json

ComparedOriginal == files[file_path(ret.arg[2])].json

differences == ret.value.differences

\* the number of raw elements under the document root whose terminal path
\* segment is `segment`
RawTally(segment) ==
    LET raw_elements == Get(ComparedOriginal, "elements", <<>>)
    IN  Cardinality({i \in 1..Len(raw_elements) :
            /\ "Path" \in DOMAIN raw_elements[i]
            /\ StartsWith(raw_elements[i].Path, "//Document/")
            /\ EndsWith(raw_elements[i].Path, "/" \o segment)})

\* the number of entries of list `kind` over the pages of the document
TotalOf(kind) ==
    LET pages == Get(ComparedDocument, "pages", <<>>)
    IN  Cardinality(UNION {{<<i, j>> : j \in 1..Len(Get(pages[i], kind, <<>>))} :
                              i \in 1..Len(pages)})

(***************************************************************************)
(* C19: compare records a difference carrying both values whenever the     *)
(* number of raw elements whose terminal path segment is 'Table' differs   *)
(* from the document's total table count, or the number whose terminal     *)
(* segment is 'Figure' differs from the document's total image count, for  *)
(* every pair of values including a raw tally of zero; and valid is false  *)
(* if and only if at least one difference was recorded.                    *)
(***************************************************************************)
C19_EveryCountMismatchIsADifference ==
    Compared
        => /\ RawTally("Table") # TotalOf("tables")
                  => \E i \in 1..Len(differences) :
                         differences[i] =
                             "Table count: restructured=" \o ToString(TotalOf("tables"))
                                 \o ", original=" \o ToString(RawTally("Table"))
           /\ RawTally("Figure") # TotalOf("images")
                  => \E i \in 1..Len(differences) :
                         differences[i] =
                             "Image count: restructured=" \o ToString(TotalOf("images"))
                                 \o ", original=" \o ToString(RawTally("Figure"))
           /\ ~ret.value.comparison_valid <=> Len(differences) > 0

(***************************************************************************)
(* Reports of generate_verification_report.                                *)
(***************************************************************************)
Reported ==
    /\ ret.op = "generate_verification_report"
    /\ ret.value.exc = ""
    /\ ret.value.value.verification_complete

report == ret.value.value

(***************************************************************************)
(* C20: the overall assessment of a verification report is a function of   *)
(* the two sub-results only: 'excellent' when structure is valid and       *)
(* quality is 'good', 'good' when structure is valid and quality is        *)
(* 'warning', 'poor' when structure is invalid, and 'fair' in every other  *)
(* case; the comparison sub-report never changes it.                       *)
(***************************************************************************)
C20_AssessmentFromStructureAndQuality ==
    Reported
        => LET valid == report.structure_verification.structure_valid
               tier == report.content_verification.content_quality
           IN  /\ (valid /\ tier = "good") => report.overall_assessment = "excellent"
               /\ (valid /\ tier = "warning") => report.overall_assessment = "good"
               /\ ~valid => report.overall_assessment = "poor"
               /\ (valid /\ tier \notin {"good", "warning"})
                      => report.overall_assessment = "fair"

\* an excellent report whose comparison found differences
C20_Witness ==
    /\ Reported
    /\ "comparison" \in DOMAIN report
    /\ ~report.comparison.comparison_valid
    /\ report.overall_assessment = "excellent"

(***************************************************************************)
(* Sessions: the runs of assemble among the calls made so far.             *)
(***************************************************************************)
Runs == {i \in 1..Len(calls) : calls[i].op = "restructure_output"}

LatestCall == calls[Len(calls)]

\* the Document holds a table with a grid, an id and an image
HasTableAndImage(doc) ==
    /\ \E p \in 1..Len(doc.pages) :
           \E t \in 1..Len(doc.pages[p].tables) :
               Len(doc.pages[p].tables[t].data) > 0
    /\ \E p \in 1..Len(doc.pages) : Len(doc.pages[p].images) > 0

Orders(n) ==
    {p \in [1..n -> 1..n] : \A i, j \in 1..n : p[i] = p[j] => i = j}

Permuted(p) == [i \in 1..Len(elements) |-> elements[p[i]]]

\* the elements below the table element of the latest build_grid
Descendants ==
    {j \in 1..Len(elements) :
        StartsWith(elements[j].Path, elements[ret.arg].Path \o "/")}

\* the trimmed joined text of every set of paragraphs below the table
OwnTexts ==
    {Strip(JoinTexts(J)) : J \in SUBSET {j \in Descendants : "Text" \in DOMAIN elements[j]}}

(***************************************************************************)
(* C24: the grid returned by build_grid does not depend on the order of    *)
(* the elements in the input list: for every table element and every       *)
(* permutation of all_elements, build_grid returns the same grid.          *)
(***************************************************************************)
C24_GridIndependentOfElementOrder ==
    GridBuilt
        => \A p \in Orders(Len(elements)) :
               extract_table_data(elements[ret.arg], Permuted(p)) = grid

(***************************************************************************)
(* C25: the grid of a table contains text only from cell elements that are *)
(* descendants of that same table element: no cell or cell paragraph of    *)
(* another table (Table[2] beside an unindexed Table, Table[10] beside     *)
(* Table[1]) contributes a row or a cell text to it.                       *)
(***************************************************************************)
C25_GridHoldsOwnCellsOnly ==
    (GridBuilt /\ IsTableRoot(elements[ret.arg]))
        => /\ Len(grid) = Cardinality({RowIndex(elements[j]) : j \in Cells \cap Descendants})
           /\ \A r \in 1..Len(grid) : \A c \in 1..Len(grid[r]) : grid[r][c] \in OwnTexts

(***************************************************************************)
(* C26: the caption attached to an image by assemble is always the text of *)
(* a paragraph element located on the same page as the image's figure      *)
(* element; a paragraph of another page is never chosen as caption.        *)
(***************************************************************************)
C26_CaptionIsFromTheImagesPage ==
    Assembled
        => \A p \in 1..Len(document.pages) :
               \A k \in 1..Len(document.pages[p].images) :
                   LET c == document.pages[p].images[k].caption
                   IN  c # None
                           => \E j \in 1..Len(elements) :
                                  /\ StartsWith(elements[j].Path, "//Document/P")
                                  /\ "Text" \in DOMAIN elements[j]
                                  /\ PageOf(elements[j]) = p - 1
                                  /\ c = Some(elements[j].Text)

(***************************************************************************)
(* The command line of the verifier: the latest run of main.               *)
(***************************************************************************)
MainRan == ret.op = "main"

\* the document main's --file names, where load_extraction_result finds it
LoadedByMain == file_path(ret.arg[1]) \in DOMAIN files

MainDocument == files[file_path(ret.arg[1])].json

(***************************************************************************)
(* C27: generate_verification_report never yields the assessment 'fair':   *)
(* for every loaded document the overall assessment is 'poor' exactly when *)
(* verify_structure reports invalid, and otherwise 'excellent' or 'good',  *)
(* so the verifier's exit status is success exactly when the structure is  *)
(* valid.                                                                  *)
(***************************************************************************)
C27_ExitStatusFollowsStructure ==
    /\ Reported
           => /\ report.overall_assessment \in {"excellent", "good", "poor"}
              /\ report.overall_assessment = "poor"
                     <=> ~report.structure_verification.structure_valid
    /\ (MainRan /\ LoadedByMain)
           => (ret.value = 0 <=> verify_structure(MainDocument).structure_valid)

(***************************************************************************)
(* start_and_wait: the result pages of the job and the ends of the call.   *)
(***************************************************************************)
\* the Blocks of the result pages from page i on, in order
RECURSIVE BlocksFrom(_, _)
BlocksFrom(pages, i) ==
    IF i > Len(pages) THEN <<>> ELSE pages[i] \o BlocksFrom(pages, i + 1)

Returned == pc = "returned"

\* the status of the latest poll, "" before the first
PolledStatus == IF "JobStatus" \in DOMAIN result THEN result.JobStatus ELSE ""

(***************************************************************************)
(* C28: start_and_wait returns blocks only after a poll reported job       *)
(* status SUCCEEDED, and the returned list is then the concatenation, in   *)
(* order, of the Blocks of that response and of every following result     *)
(* page, fetched until a response carries no NextToken; it never returns   *)
(* while the status is IN_PROGRESS, and on status FAILED it terminates     *)
(* with an error without returning any blocks.                             *)
(***************************************************************************)
C28_ReturnsAllBlocksAfterSucceeded ==
    /\ Returned
           => /\ PolledStatus = "SUCCEEDED"
              /\ all_blocks = BlocksFrom(job.pages, 1)
              /\ next_token = None
    /\ job.status = "IN_PROGRESS" => ~Returned
    /\ PolledStatus = "FAILED" <=> pc = "exited"

\* returned with the blocks of two pages, each holding some
C28_Witness ==
    /\ Returned
    /\ Len(job.pages) = 2
    /\ job.pages[1] # <<>>
    /\ job.pages[2] # <<>>
    /\ job.pages[1] # job.pages[2]

(***************************************************************************)
(* C29: start_and_wait eventually terminates whenever the Textract job     *)
(* eventually reaches a final status and the chain of NextToken pages is   *)
(* finite: once the service stops reporting IN_PROGRESS, the polling loop  *)
(* ends after finitely many polls, either returning the blocks or raising. *)
(***************************************************************************)
C29_StartAndWaitTerminates ==
    (job.status # "IN_PROGRESS") ~> (pc \in {"returned", "exited", "raised"})

\* the batch is over: process_all_pdfs returned, or an exception left it
BatchOver == pc \in {"returned", "exited"} /\ Len(pdf_files) > 0

\* C23: whatever failure occurs while one PDF is extracted or verified, every
\* PDF of the input directory is attempted: when the batch is over its result
\* holds exactly one entry per PDF, in the directory's order, marked success or
\* failed.
C23_OneEntryPerPdf ==
    BatchOver =>
        /\ Len(results.results) = Len(pdf_files)
        /\ \A i \in 1..Len(pdf_files) :
               /\ results.results[i].filename = pdf_files[i].name
               /\ results.results[i].status \in {"success", "failed"}

\* C30: when process_all_pdfs returns with at least one PDF found, the status
\* in the persisted batch_processing_results.json is the status of the returned
\* result, 'completed' when failed_files = 0 and 'completed_with_errors'
\* otherwise, never 'processing', and processed_files + failed_files =
\* total_files.
C30_SavedStatusIsFinal ==
    (pc = "returned" /\ Len(pdf_files) > 0) =>
        LET saved == files[batch_results_file].json
            returned == ret.value
        IN  /\ saved.status = returned.status
            /\ returned.status = (IF returned.failed_files = 0 THEN "completed"
                                  ELSE "completed_with_errors")
            /\ returned.processed_files + returned.failed_files = returned.total_files
            /\ saved.status # "processing"

====
